---- MODULE Spec2Model ----
(***************************************************************************)
(* Model of the carousel editor session (hooks/useCanvasEditor.ts): the    *)
(* layer list kept in React state, the drawables of the fabric canvas, the *)
(* selection, the undo/redo history and the asynchronous tasks in flight.  *)
(***************************************************************************)
EXTENDS Integers, Sequences, FiniteSets, TLC

VARIABLES
    layers,           \* useState<Layer[]>: the layer list, newest first
    objects,          \* fabricCanvas.getObjects(): drawables in z-order
    activeObject,     \* oid of the canvas' active object, 0 when none
    selectedLayerId,  \* useState<string | null>
    layerCountRef,    \* useRef(0): running id counter
    historyRef,       \* useRef<HistoryState[]>
    historyIndexRef,  \* useRef(-1)
    renderedLayers,   \* the `layers` value closed over by the callbacks of the last render
    renderedSelected, \* the `selectedLayerId` value closed over by the last render
    layersDirty,      \* a setLayers call has been made since the last render
    pendingAdds,      \* addImage/addVideo calls awaiting FabricImage.fromURL
    pendingRemovals,  \* removeBackgroundFromImage calls awaiting the remote service
    pendingLoads,     \* loadFromJSON calls (undo/redo) not yet completed
    timers,           \* pending setTimeout(cleanupOrphanedLayers, 50) callbacks
    cleaned,          \* return value of the last cleanupOrphanedLayers call
    calls,            \* log of the calls issued and errors reported, with the state before each
    evaluated,        \* the last evaluateCurve call: its arguments and its return value
    project,          \* useCarouselProject: useState<CarouselProject>
    currentSlideIndex,\* useCarouselProject: useState(0)
    renderedStore,    \* project.slides and currentSlideIndex as closed over by the last render
    storeDirty,       \* setProject / setCurrentSlideIndex called since the last render
    effects,          \* passive effects of the last render that have not run yet
    clock,            \* ids handed out by generateId so far
    exported,         \* what the last export handed to the browser
    storage           \* localStorage: the item stored under the project key

progVars == <<layers, objects, activeObject, selectedLayerId, layerCountRef,
              historyRef, historyIndexRef, renderedLayers, renderedSelected,
              layersDirty, pendingAdds, pendingRemovals, pendingLoads, timers, cleaned>>
vars == <<layers, objects, activeObject, selectedLayerId, layerCountRef,
          historyRef, historyIndexRef, renderedLayers, renderedSelected,
          layersDirty, pendingAdds, pendingRemovals, pendingLoads, timers, cleaned, calls,
          evaluated, project, currentSlideIndex, renderedStore, storeDirty, effects, clock,
          exported, storage>>
storeVars == <<project, currentSlideIndex, renderedStore, storeDirty, effects, clock, exported,
               storage>>

----------------------------------------------------------------------------
(* Bounds of the model *)

MaxCalls == 3        \* operations issued in one explored session
MaxInflight == 1     \* scene restores in flight at once in the history specification
MaxOps == 2          \* N of the undo / redo round-trip scenario
MaxGrades == 3       \* n of the grading scenario
MaxPairLen == 2      \* layers / drawables of an arbitrary reconcile input
MaxCurvePoints == 4  \* points of a curve handed to evaluateCurve

(* Program constants *)

HistoryLimit == 50     \* saveHistory: historyRef.current.length > 50
DefaultIntensity == 75 \* layer.lutIntensity ?? 75

----------------------------------------------------------------------------
(* Values *)

NoLayer == <<"null", 0>>                 \* selectedLayerId === null
LayerId(t, n) == <<t, n>>                \* `${type}-${n}`
GoodUrls == {"a.png"}
BadUrls == {"missing.png"}
TextValues == {"hello", "world"}
LutPresets == {"noir"}
Intensities == {50, 100}
NoPreset == "undefined"
CutoutUrl == "cutout.png"                \* result.imageDataUrl

Max(a, b) == IF a >= b THEN a ELSE b

\* The blocks of advancedColorGrade in the order the engine reads them.
AdvancedBlocks ==
    <<"colorWheels", "primaryAdjustments", "primaryBars", "advancedAdjustments",
      "hslAdjustments", "advancedCurves", "rgbMixer", "curves">>
\* advancedColorGrade: undefined; every block is absent (<<>>) or holds its value (<<v>>).
NoAdvanced == [b \in {AdvancedBlocks[i] : i \in 1..Len(AdvancedBlocks)} |-> <<>>]

\* A Layer record as the add-operations create it.
NewLayer(id, type, url) ==
    [id |-> id, type |-> type, visible |-> TRUE, locked |-> FALSE,
     sourceUrl |-> url, lutPreset |-> NoPreset, lutIntensity |-> <<>>,
     manualAdjustments |-> <<>>, advancedColorGrade |-> NoAdvanced]

LayerIds(ls) == {ls[i].id : i \in 1..Len(ls)}
ObjectTags(os) == {os[i].layerId : i \in 1..Len(os)}

\* getMaxLayerSuffix: the largest numeric suffix of the ids, 0 when there is none.
getMaxLayerSuffix(ls) ==
    LET S == {ls[i].id[2] : i \in 1..Len(ls)} \cup {0}
    IN CHOOSE m \in S : \A x \in S : x <= m

----------------------------------------------------------------------------
(* The canvas (Scene Adapter) *)

\* fabricCanvas.getObjects().find(o => o.layerId === id): index of the first match, 0 if none.
FindIndex(os, id) ==
    LET S == {i \in 1..Len(os) : os[i].layerId = id}
    IN IF S = {} THEN 0 ELSE CHOOSE i \in S : \A j \in S : i <= j

\* getObjects().indexOf(obj): position of the drawable with that identity, 0 if it left the canvas.
IndexOfOid(os, oid) ==
    LET S == {i \in 1..Len(os) : os[i].oid = oid}
    IN IF S = {} THEN 0 ELSE CHOOSE i \in S : TRUE

RemoveAt(os, i) == SubSeq(os, 1, i - 1) \o SubSeq(os, i + 1, Len(os))

\* insertAt(index, obj) is Array.prototype.splice(index, 0, obj); `start` is the 0-based index,
\* a negative one counts from the end and is clamped at 0.
InsertAt(os, start, obj) ==
    LET at == IF start < 0 THEN Max(Len(os) + start, 0)
              ELSE IF start > Len(os) THEN Len(os) ELSE start
    IN SubSeq(os, 1, at) \o <<obj>> \o SubSeq(os, at + 1, Len(os))

\* Identities of the drawables some pending removeBackgroundFromImage call still refers to.
HeldOids == {pendingRemovals[i].oid : i \in 1..Len(pendingRemovals)}
CanvasOids == {objects[i].oid : i \in 1..Len(objects)}

RECURSIVE NextFree(_, _)
NextFree(used, n) == IF n \notin used THEN n ELSE NextFree(used, n + 1)
\* A new JavaScript object: an identity no live reference has.
FreshOid(used) == NextFree(used, 1)

NewObject(oid, id, type, content) ==
    [oid |-> oid, layerId |-> id, type |-> type, visible |-> TRUE,
     selectable |-> TRUE, content |-> content, filters |-> <<>>]

\* toJSON(serializationProps): the default properties of each drawable plus layerId (and
\* blendMode); `selectable` / `evented` and the object's identity are not written.
SerializeObject(o) ==
    [layerId |-> o.layerId, type |-> o.type, visible |-> o.visible,
     content |-> o.content, filters |-> o.filters]
Serialize(os) == [i \in 1..Len(os) |-> SerializeObject(os[i])]

\* loadFromJSON: every drawable is a new object; properties that were not written take
\* their defaults (selectable: true).
RECURSIVE Deserialize(_, _)
Deserialize(json, used) ==
    IF json = <<>> THEN <<>>
    ELSE LET oid == FreshOid(used)
             j == json[1]
         IN <<[oid |-> oid, layerId |-> j.layerId, type |-> j.type, visible |-> j.visible,
               selectable |-> TRUE, content |-> j.content, filters |-> j.filters]>>
            \o Deserialize(Tail(json), used \cup {oid})

----------------------------------------------------------------------------
(* The Grading Engine *)

\* JavaScript numbers are modelled as exact fractions <<numerator, denominator>> with a
\* positive denominator; NaN is what 0 / 0 evaluates to.
NaN == <<0, 0>>
Frac(n, d) == <<n, d>>
\* Each operator takes the value of its operands once (x, y) and computes on the values.
RSub(a, b) == CHOOSE r \in {<<x[1] * y[2] - y[1] * x[2], x[2] * y[2]>> : x \in {a}, y \in {b}} : TRUE
RAdd(a, b) == CHOOSE r \in {<<x[1] * y[2] + y[1] * x[2], x[2] * y[2]>> : x \in {a}, y \in {b}} : TRUE
RMul(a, b) == CHOOSE r \in {<<x[1] * y[1], x[2] * y[2]>> : x \in {a}, y \in {b}} : TRUE
RDiv(a, b) ==
    CHOOSE r \in {IF y[1] = 0 THEN NaN
                  ELSE IF y[1] > 0 THEN <<x[1] * y[2], x[2] * y[1]>>
                  ELSE <<-(x[1] * y[2]), -(x[2] * y[1])>> : x \in {a}, y \in {b}} : TRUE
REq(a, b) == \E x \in {a}, y \in {b} : x[1] * y[2] = y[1] * x[2]
RLeq(a, b) == \E x \in {a}, y \in {b} : x[1] * y[2] <= y[1] * x[2]
RAbs(a) == CHOOSE r \in {IF x[1] < 0 THEN <<-x[1], x[2]>> ELSE x : x \in {a}} : TRUE
RGreater(a, b) == ~RLeq(a, b)
RECURSIVE Gcd(_, _)
Gcd(a, b) == CHOOSE g \in {IF y = 0 THEN x ELSE Gcd(y, x % y) : x \in {a}, y \in {b}} : TRUE
\* The same number in lowest terms.
Reduce(a) ==
    CHOOSE r \in {LET g == Gcd(IF x[1] < 0 THEN -x[1] ELSE x[1], x[2])
                  IN IF g = 0 THEN x ELSE <<x[1] \div g, x[2] \div g>> : x \in {a}} : TRUE

\* [...points].sort((a, b) => a.x - b.x): a stable sort by x.
RECURSIVE InsertByX(_, _)
InsertByX(sorted, p) ==
    IF sorted = <<>> THEN <<p>>
    ELSE IF RLeq(sorted[Len(sorted)].x, p.x) THEN Append(sorted, p)
    ELSE Append(InsertByX(SubSeq(sorted, 1, Len(sorted) - 1), p), sorted[Len(sorted)])
RECURSIVE SortByX(_)
SortByX(points) ==
    IF points = <<>> THEN <<>>
    ELSE CHOOSE r \in {InsertByX(s, points[Len(points)])
                         : s \in {SortByX(SubSeq(points, 1, Len(points) - 1))}} : TRUE

\* Math.max(0, Math.min(1, x))
Clamp01(x) ==
    CHOOSE r \in {IF RLeq(v, Frac(0, 1)) THEN Frac(0, 1)
                  ELSE IF RLeq(Frac(1, 1), v) THEN Frac(1, 1) ELSE v : v \in {x}} : TRUE

\* The loop of evaluateCurve over the sorted points, for x already clamped to [0, 1].
Interpolate(sorted, cx) ==
    LET n == Len(sorted)
        hits == {i \in 1..(n - 1) : RLeq(sorted[i].x, cx) /\ RLeq(cx, sorted[i + 1].x)}
    IN IF RLeq(cx, sorted[1].x) THEN sorted[1].y
       ELSE IF RLeq(sorted[n].x, cx) THEN sorted[n].y
       ELSE IF hits = {} THEN cx
       ELSE LET i == CHOOSE i \in hits : \A j \in hits : i <= j
                t == RDiv(RSub(cx, sorted[i].x), RSub(sorted[i + 1].x, sorted[i].x))
            IN IF t = NaN THEN NaN
               ELSE Reduce(RAdd(sorted[i].y, RMul(t, RSub(sorted[i + 1].y, sorted[i].y))))

evaluateCurve_unsorted(points, x) ==
    IF Len(points) = 0 THEN x
    ELSE IF Len(points) = 1 THEN points[1].y
    ELSE CHOOSE y \in {Interpolate(sorted, cx) : sorted \in {points}, cx \in {Clamp01(x)}} : TRUE

\* evaluateCurve(points, x), defined twice with the same body (advanced curves, RGB curves).
evaluateCurve(points, x) ==
    IF Len(points) = 0 THEN x
    ELSE IF Len(points) = 1 THEN points[1].y
    ELSE CHOOSE y \in {Interpolate(sorted, cx)
                         : sorted \in {SortByX(points)}, cx \in {Clamp01(x)}} : TRUE

\* An op of a drawable's filter list: the engine stage that pushed it, the fabric filter
\* and its argument.
FilterOp(stage, filter, amount) == <<stage, filter, amount>>
Emit(condition, op) == IF condition THEN <<op>> ELSE <<>>
\* A colour matrix with the diagonal `diag` and the offset column `off`, in 1/den.
Matrix(diag, off, den) == [diag |-> diag, off |-> off, den |-> den]
Rgb(r, g, b) == <<r, g, b>>

\* 1. Manual adjustments, each pushed only when it is not 0.
ManualOps(layer) ==
    IF layer.manualAdjustments = <<>> THEN <<>>
    ELSE LET adj == layer.manualAdjustments[1]
         IN Emit(adj.exposure # 0, FilterOp("manual", "Brightness", Frac(adj.exposure, 100)))
            \o Emit(adj.contrast # 0, FilterOp("manual", "Contrast", Frac(adj.contrast, 100)))
            \o Emit(adj.saturation # 0, FilterOp("manual", "Saturation", Frac(adj.saturation, 100)))
            \o Emit(adj.temperature # 0, FilterOp("manual", "HueRotation", Frac(adj.temperature, 1000)))

\* 2a. Colour wheels: lift, gamma, gain, offset.
ColorWheelOps(cw) ==
    Emit(cw.lift # Rgb(0, 0, 0),
         FilterOp("colorWheels", "ColorMatrix", Matrix(Rgb(200, 200, 200), cw.lift, 200)))
    \o Emit(cw.gamma # Rgb(0, 0, 0),
            FilterOp("colorWheels", "ColorMatrix",
                     Matrix(Rgb(300 + cw.gamma[1], 300 + cw.gamma[2], 300 + cw.gamma[3]),
                            Rgb(0, 0, 0), 300)))
    \o Emit(cw.gain # Rgb(0, 0, 0),
            FilterOp("colorWheels", "ColorMatrix",
                     Matrix(Rgb(200 + cw.gain[1], 200 + cw.gain[2], 200 + cw.gain[3]),
                            Rgb(0, 0, 0), 200)))
    \o Emit(cw.offset # Rgb(0, 0, 0),
            FilterOp("colorWheels", "ColorMatrix", Matrix(Rgb(200, 200, 200), cw.offset, 200)))

\* 2b. Primary adjustments.
PrimaryAdjustmentOps(pa) ==
    LET amount == IF pa.midtoneDetail < 0 THEN -pa.midtoneDetail ELSE pa.midtoneDetail
        capped == IF amount > 100 THEN 100 ELSE amount
    IN Emit(pa.contrast # 0, FilterOp("primaryAdjustments", "Contrast", Frac(pa.contrast, 100)))
       \o Emit(pa.pivot # 0, FilterOp("primaryAdjustments", "Brightness", Frac(pa.pivot, 250)))
       \o Emit(pa.saturation # 0, FilterOp("primaryAdjustments", "Saturation", Frac(pa.saturation, 100)))
       \o Emit(pa.hue # 0, FilterOp("primaryAdjustments", "HueRotation", Frac(12 * pa.hue, 10000)))
       \o Emit(pa.temperature # 0,
               FilterOp("primaryAdjustments", "HueRotation", Frac(pa.temperature, 1000)))
       \o Emit(pa.tint # 0, FilterOp("primaryAdjustments", "HueRotation", Frac(8 * pa.tint, 10000)))
       \o Emit(pa.colorBoost # 0,
               FilterOp("primaryAdjustments", "Saturation", Frac(8 * pa.colorBoost, 1000)))
       \o Emit(pa.shadowLift # 0, FilterOp("primaryAdjustments", "Brightness", Frac(pa.shadowLift, 300)))
       \o Emit(pa.highlightGain # 0,
               FilterOp("primaryAdjustments", "Brightness", Frac(pa.highlightGain, 300)))
       \o Emit(pa.midtoneDetail # 0,
               FilterOp("primaryAdjustments", "Convolute",
                        IF pa.midtoneDetail > 0 THEN <<"sharpen", Frac(capped, 200)>>
                        ELSE <<"blur", Frac(capped, 400)>>))

\* 2c. Primary bars: one matrix, pushed whatever its values.
PrimaryBarOps(pb) ==
    <<FilterOp("primaryBars", "ColorMatrix",
               Matrix(Rgb(400 + 2 * pb.gain[1] + pb.gamma[1], 400 + 2 * pb.gain[2] + pb.gamma[2],
                          400 + 2 * pb.gain[3] + pb.gamma[3]),
                      Rgb(2 * (pb.lift[1] + pb.offset[1]), 2 * (pb.lift[2] + pb.offset[2]),
                          2 * (pb.lift[3] + pb.offset[3])),
                      400))>>

\* 2d. Advanced adjustments.
AdvancedAdjustmentOps(aa) ==
    Emit(aa.vibrance # 0, FilterOp("advancedAdjustments", "Saturation", Frac(7 * aa.vibrance, 1000)))
    \o Emit(aa.highlights # 0, FilterOp("advancedAdjustments", "Brightness", Frac(aa.highlights, 200)))
    \o Emit(aa.shadows # 0, FilterOp("advancedAdjustments", "Brightness", Frac(aa.shadows, 200)))
    \o Emit(aa.whites # 0, FilterOp("advancedAdjustments", "Brightness", Frac(aa.whites, 300)))
    \o Emit(aa.blacks # 0, FilterOp("advancedAdjustments", "Brightness", Frac(aa.blacks, 300)))
    \o Emit(aa.tint # 0, FilterOp("advancedAdjustments", "HueRotation", Frac(5 * aa.tint, 10000)))

\* 2e. HSL: the six ranges averaged with the weights 0.2, 0.15, 0.2, 0.15, 0.2, 0.1 (in
\* hundredths here; their sum is 1), each average used when it exceeds 0.1 in size.
HslWeights ==
    [reds |-> 20, yellows |-> 15, greens |-> 20, cyans |-> 15, blues |-> 20, magentas |-> 10]
RECURSIVE WeightedSum(_, _, _)
WeightedSum(hsl, field, names) ==
    IF names = {} THEN 0
    ELSE LET n == CHOOSE n \in names : TRUE
         IN hsl[n][field] * HslWeights[n] + WeightedSum(hsl, field, names \ {n})
HslOps(hsl) ==
    LET avgHue == Frac(WeightedSum(hsl, "hue", DOMAIN HslWeights), 100)
        avgSat == Frac(WeightedSum(hsl, "saturation", DOMAIN HslWeights), 100)
        avgLum == Frac(WeightedSum(hsl, "luminance", DOMAIN HslWeights), 100)
    IN Emit(RGreater(RAbs(avgHue), Frac(1, 10)),
            FilterOp("hslAdjustments", "HueRotation", Reduce(RMul(avgHue, Frac(15, 10000)))))
       \o Emit(RGreater(RAbs(avgSat), Frac(1, 10)),
               FilterOp("hslAdjustments", "Saturation", Reduce(RMul(avgSat, Frac(1, 100)))))
       \o Emit(RGreater(RAbs(avgLum), Frac(1, 10)),
               FilterOp("hslAdjustments", "Brightness", Reduce(RMul(avgLum, Frac(1, 200)))))

\* averageDelta: the mean of evaluateCurve(points, x) - x over the 8 samples x = i / 7.
RECURSIVE DeltaSum(_, _)
DeltaSum(points, i) ==
    IF i < 0 THEN Frac(0, 1)
    ELSE Reduce(RAdd(DeltaSum(points, i - 1),
                     RSub(evaluateCurve(points, Frac(i, 7)), Frac(i, 7))))
averageDelta(points) == Reduce(RMul(DeltaSum(points, 7), Frac(1, 8)))

\* 2f. Advanced curves.
AdvancedCurveOps(curves) ==
    LET hueDelta == averageDelta(curves.hueVsHue)
        satAdjust == Reduce(RAdd(RAdd(RMul(averageDelta(curves.hueVsSat), Frac(12, 10)),
                                      averageDelta(curves.lumVsSat)),
                                 RMul(averageDelta(curves.satVsSat), Frac(11, 10))))
        hueLumDelta == averageDelta(curves.hueVsLum)
    IN Emit(RGreater(RAbs(hueDelta), Frac(1, 100)),
            FilterOp("advancedCurves", "HueRotation", Reduce(RMul(hueDelta, Frac(1, 2)))))
       \o Emit(RGreater(RAbs(satAdjust), Frac(1, 100)),
               FilterOp("advancedCurves", "Saturation", satAdjust))
       \o Emit(RGreater(RAbs(hueLumDelta), Frac(1, 100)),
               FilterOp("advancedCurves", "Brightness", Reduce(RMul(hueLumDelta, Frac(1, 2)))))

\* 2g. RGB mixer: one matrix (its nine coefficients in 1/200, row by row), pushed whatever
\* its values.
RgbMixerOps(mixer) ==
    <<FilterOp("rgbMixer", "ColorMatrix",
               [rows |-> <<200 + mixer.redToRed, mixer.greenToRed, mixer.blueToRed,
                           mixer.redToGreen, 200 + mixer.greenToGreen, mixer.blueToGreen,
                           mixer.redToBlue, mixer.greenToBlue, 200 + mixer.blueToBlue>>,
                den |-> 200])>>

\* 2h. RGB curves: the master curve as brightness and contrast, the channel curves as one
\* matrix of multipliers.
ChannelMultiplier(points) ==
    IF Len(points) < 2 THEN Frac(1, 1)
    ELSE Reduce(RAdd(Frac(1, 1), RMul(RSub(evaluateCurve(points, Frac(1, 2)), Frac(1, 2)), Frac(2, 10))))
CurveOps(curves) ==
    LET brightnessAdjust ==
            Reduce(RMul(RSub(evaluateCurve(curves.master, Frac(1, 2)), Frac(1, 2)), Frac(1, 2)))
        contrastAdjust ==
            Reduce(RMul(RSub(RSub(evaluateCurve(curves.master, Frac(3, 4)),
                                  evaluateCurve(curves.master, Frac(1, 4))),
                             Frac(1, 2)),
                        Frac(3, 10)))
        mult == <<ChannelMultiplier(curves.red), ChannelMultiplier(curves.green),
                  ChannelMultiplier(curves.blue)>>
        Off(m) == RGreater(RAbs(RSub(m, Frac(1, 1))), Frac(1, 100))
    IN (IF Len(curves.master) >= 2
        THEN Emit(RGreater(RAbs(brightnessAdjust), Frac(1, 100)),
                  FilterOp("curves", "Brightness", brightnessAdjust))
             \o Emit(RGreater(RAbs(contrastAdjust), Frac(1, 100)),
                     FilterOp("curves", "Contrast", contrastAdjust))
        ELSE <<>>)
       \o Emit(Off(mult[1]) \/ Off(mult[2]) \/ Off(mult[3]), FilterOp("curves", "ColorMatrix", mult))

BlockOps(block, v) ==
    CASE block = "colorWheels" -> ColorWheelOps(v)
      [] block = "primaryAdjustments" -> PrimaryAdjustmentOps(v)
      [] block = "primaryBars" -> PrimaryBarOps(v)
      [] block = "advancedAdjustments" -> AdvancedAdjustmentOps(v)
      [] block = "hslAdjustments" -> HslOps(v)
      [] block = "advancedCurves" -> AdvancedCurveOps(v)
      [] block = "rgbMixer" -> RgbMixerOps(v)
      [] block = "curves" -> CurveOps(v)

\* 2. The advanced colour grade, block after block.
RECURSIVE AdvancedOps(_, _)
AdvancedOps(adv, i) ==
    IF i > Len(AdvancedBlocks) THEN <<>>
    ELSE (IF adv[AdvancedBlocks[i]] = <<>> THEN <<>>
          ELSE BlockOps(AdvancedBlocks[i], adv[AdvancedBlocks[i]][1]))
         \o AdvancedOps(adv, i + 1)

\* 3. The preset recipes, scaled by intensity / 100: amounts in 1/10000 (the coefficient
\* in hundredths times the intensity in percent).
PresetRecipes ==
    [turquoise |-> <<<<"HueRotation", -10>>, <<"Saturation", 20>>>>,
     gold |-> <<<<"HueRotation", 5>>, <<"Saturation", 15>>>>,
     silver |-> <<<<"Saturation", -30>>, <<"Brightness", 5>>>>,
     cinematic |-> <<<<"Contrast", 15>>, <<"Saturation", 10>>, <<"HueRotation", -3>>>>,
     matte |-> <<<<"Contrast", -20>>, <<"Brightness", 6>>, <<"Saturation", -10>>>>,
     vibrant |-> <<<<"Saturation", 35>>, <<"Contrast", 15>>, <<"Brightness", 3>>>>,
     noir |-> <<<<"Saturation", -100>>, <<"Contrast", 20>>, <<"Brightness", -5>>>>,
     pastel |-> <<<<"Contrast", -15>>, <<"Brightness", 8>>, <<"Saturation", -5>>,
                  <<"HueRotation", 2>>>>,
     sunset |-> <<<<"HueRotation", 8>>, <<"Saturation", 15>>, <<"Brightness", 4>>>>]
PresetOps(lut, intensity) ==
    IF lut \in DOMAIN PresetRecipes
    THEN [k \in 1..Len(PresetRecipes[lut]) |->
            FilterOp("preset", PresetRecipes[lut][k][1],
                     Frac(PresetRecipes[lut][k][2] * intensity, 10000))]
    ELSE <<>>

applyAllFiltersToImage_presetFirst(img, layer) ==
    (IF layer.lutPreset \in {NoPreset, "null"} THEN <<>>
     ELSE PresetOps(layer.lutPreset,
                    IF layer.lutIntensity = <<>> THEN DefaultIntensity
                    ELSE layer.lutIntensity[1]))
    \o ManualOps(layer)
    \o AdvancedOps(layer.advancedColorGrade, 1)

applyAllFiltersToImage_accumulate(img, layer) ==
    img.filters
    \o ManualOps(layer)
    \o AdvancedOps(layer.advancedColorGrade, 1)
    \o (IF layer.lutPreset \in {NoPreset, "null"} THEN <<>>
        ELSE PresetOps(layer.lutPreset,
                       IF layer.lutIntensity = <<>> THEN DefaultIntensity
                       ELSE layer.lutIntensity[1]))

\* applyAllFiltersToImage(img, layer): img.filters = [], then the ops of the manual
\* adjustments, of the advanced grade and of the preset are pushed in that order.
applyAllFiltersToImage(img, layer) ==
    <<>>
    \o ManualOps(layer)
    \o AdvancedOps(layer.advancedColorGrade, 1)
    \o (IF layer.lutPreset \in {NoPreset, "null"} THEN <<>>
        ELSE PresetOps(layer.lutPreset,
                       IF layer.lutIntensity = <<>> THEN DefaultIntensity
                       ELSE layer.lutIntensity[1]))

\* The drawables after the records ls[k], k \in T, had their filters re-derived in list
\* order: each record is applied to the first drawable carrying its id, if that is an image.
ApplyFilters(os, ls, T) ==
    [i \in 1..Len(os) |->
        LET S == {k \in T : ls[k].id = os[i].layerId}
        IN IF S # {} /\ FindIndex(os, os[i].layerId) = i /\ os[i].type = "image"
           THEN LET k == CHOOSE k \in S : \A m \in S : m <= k
                IN [os[i] EXCEPT !.filters = applyAllFiltersToImage(os[i], ls[k])]
           ELSE os[i]]

----------------------------------------------------------------------------
(* History Manager *)

canUndo == historyIndexRef > 0
canRedo == historyIndexRef < Len(historyRef) - 1

\* The entry saveHistory pushes: the layer list of the last render and the serialized scene.
HistoryState == [layers |-> renderedLayers, canvasState |-> Serialize(objects)]

saveHistory_noTruncate ==
    LET pushed == Append(historyRef, HistoryState)
    IN IF Len(pushed) > HistoryLimit
       THEN historyRef' = Tail(pushed) /\ historyIndexRef' = Len(pushed) - 2
       ELSE historyRef' = pushed /\ historyIndexRef' = Len(pushed) - 1

\* saveHistory: drop the redo entries, push, move the index to the end, evict the oldest
\* entry when the length exceeds the limit.
saveHistory ==
    LET sliced == SubSeq(historyRef, 1, historyIndexRef + 1)
        pushed == Append(sliced, HistoryState)
    IN IF Len(pushed) > HistoryLimit
       THEN historyRef' = Tail(pushed) /\ historyIndexRef' = Len(pushed) - 2
       ELSE historyRef' = pushed /\ historyIndexRef' = Len(pushed) - 1

----------------------------------------------------------------------------
(* Layer Store operations *)

\* addText: snapshot, create the text drawable, select it, put the record first.
addText(text) ==
    /\ saveHistory
    /\ LET n == layerCountRef + 1
           id == LayerId("text", n)
           obj == NewObject(FreshOid(CanvasOids \cup HeldOids), id, "text", text)
       IN /\ layerCountRef' = n
          /\ objects' = Append(objects, obj)
          /\ activeObject' = obj.oid
          /\ layers' = <<NewLayer(id, "text", "")>> \o layers
          /\ selectedLayerId' = id
    /\ layersDirty' = TRUE
    /\ UNCHANGED <<renderedLayers, renderedSelected, pendingAdds, pendingRemovals,
                   pendingLoads, timers, cleaned>>

\* addImage / addVideo up to `await FabricImage.fromURL(url)`: the snapshot is taken first.
addMedia(kind, url) ==
    /\ saveHistory
    /\ pendingAdds' = Append(pendingAdds, [kind |-> kind, url |-> url])
    /\ UNCHANGED <<layers, objects, activeObject, selectedLayerId, layerCountRef,
                   renderedLayers, renderedSelected, layersDirty, pendingRemovals,
                   pendingLoads, timers, cleaned>>

\* addImage / addVideo after the source has loaded: allocate the id, add and select the
\* drawable, put the record first.
addMediaLoaded(i) ==
    /\ i \in 1..Len(pendingAdds)
    /\ pendingAdds[i].url \in GoodUrls
    /\ LET p == pendingAdds[i]
           n == layerCountRef + 1
           id == LayerId(p.kind, n)
           obj == NewObject(FreshOid(CanvasOids \cup HeldOids), id, "image", p.url)
       IN /\ layerCountRef' = n
          /\ objects' = Append(objects, obj)
          /\ activeObject' = obj.oid
          /\ layers' = <<NewLayer(id, p.kind, p.url)>> \o layers
          /\ selectedLayerId' = id
    /\ layersDirty' = TRUE
    /\ pendingAdds' = RemoveAt(pendingAdds, i)
    /\ UNCHANGED <<historyRef, historyIndexRef, renderedLayers, renderedSelected,
                   pendingRemovals, pendingLoads, timers, cleaned>>

\* addImage / addVideo when fromURL rejects: the catch block only reports the error.
addMediaFailed(i) ==
    /\ i \in 1..Len(pendingAdds)
    /\ pendingAdds[i].url \in BadUrls
    /\ pendingAdds' = RemoveAt(pendingAdds, i)
    /\ UNCHANGED <<layers, objects, activeObject, selectedLayerId, layerCountRef,
                   historyRef, historyIndexRef, renderedLayers, renderedSelected,
                   layersDirty, pendingRemovals, pendingLoads, timers, cleaned>>

\* updateTextLayer: no-op unless the id resolves to a text drawable; snapshot, then set the
\* drawable's text. The layer record is not touched.
updateTextLayer(layerId, text) ==
    LET i == FindIndex(objects, layerId)
    IN /\ i # 0
       /\ objects[i].type = "text"
       /\ saveHistory
       /\ objects' = [objects EXCEPT ![i].content = text]
       /\ UNCHANGED <<layers, activeObject, selectedLayerId, layerCountRef, renderedLayers,
                      renderedSelected, layersDirty, pendingAdds, pendingRemovals,
                      pendingLoads, timers, cleaned>>

\* removeBackgroundFromImage up to the first await: rejected unless the id resolves to an
\* image drawable; the snapshot is taken, `obj` stays referenced by the pending call.
removeBackgroundFromImage(layerId) ==
    LET i == FindIndex(objects, layerId)
    IN /\ i # 0
       /\ objects[i].type = "image"
       /\ saveHistory
       /\ pendingRemovals' = Append(pendingRemovals, [layerId |-> layerId, oid |-> objects[i].oid])
       /\ UNCHANGED <<layers, objects, activeObject, selectedLayerId, layerCountRef,
                      renderedLayers, renderedSelected, layersDirty, pendingAdds,
                      pendingLoads, timers, cleaned>>

\* removeBackgroundFromImage after the service answered and the processed image loaded:
\* remove `obj`, insert the processed image at its index, select it, update sourceUrl.
removeBackgroundDone(k) ==
    /\ k \in 1..Len(pendingRemovals)
    /\ LET r == pendingRemovals[k]
           at == IndexOfOid(objects, r.oid)
           index == at - 1
           removed == IF at = 0 THEN objects ELSE RemoveAt(objects, at)
           held == {pendingRemovals[j].oid : j \in (1..Len(pendingRemovals)) \ {k}}
           processedImg == NewObject(FreshOid(CanvasOids \cup held \cup {r.oid}),
                                     r.layerId, "image", CutoutUrl)
       IN /\ objects' = InsertAt(removed, index, processedImg)
          /\ activeObject' = processedImg.oid
          /\ selectedLayerId' = r.layerId
          /\ layers' = [i \in 1..Len(layers) |->
                          IF layers[i].id = r.layerId
                          THEN [layers[i] EXCEPT !.sourceUrl = CutoutUrl] ELSE layers[i]]
    /\ layersDirty' = TRUE
    /\ pendingRemovals' = RemoveAt(pendingRemovals, k)
    /\ UNCHANGED <<layerCountRef, historyRef, historyIndexRef, renderedLayers,
                   renderedSelected, pendingAdds, pendingLoads, timers, cleaned>>

\* removeBackgroundFromImage when the remote call (or a load) rejects: the catch block
\* only reports the error.
removeBackgroundFailed(k) ==
    /\ k \in 1..Len(pendingRemovals)
    /\ pendingRemovals' = RemoveAt(pendingRemovals, k)
    /\ UNCHANGED <<layers, objects, activeObject, selectedLayerId, layerCountRef,
                   historyRef, historyIndexRef, renderedLayers, renderedSelected,
                   layersDirty, pendingAdds, pendingLoads, timers, cleaned>>

\* The records a grading operation touches: the one with the id, or every layer of type
\* 'image' when no id is given.
GradeTargets(ls, layerId) ==
    {i \in 1..Len(ls) : IF layerId = NoLayer THEN ls[i].type = "image" ELSE ls[i].id = layerId}

ZeroManual == [exposure |-> 0, contrast |-> 0, saturation |-> 0, temperature |-> 0]
ZeroWheels ==
    [lift |-> Rgb(0, 0, 0), gamma |-> Rgb(0, 0, 0), gain |-> Rgb(0, 0, 0), offset |-> Rgb(0, 0, 0)]

updateLayer_replace(layer, change) ==
    LET blank == NewLayer(layer.id, layer.type, layer.sourceUrl)
    IN CASE change.kind = "preset" ->
               [blank EXCEPT !.lutPreset = change.lut, !.lutIntensity = <<change.intensity>>]
         [] change.kind = "reset" ->
               [blank EXCEPT !.lutPreset = "null", !.lutIntensity = <<DefaultIntensity>>]
         [] change.kind = "manual" ->
               [blank EXCEPT !.manualAdjustments =
                                <<[ZeroManual EXCEPT ![change.adjustment] = change.value]>>]
         [] change.kind = "colorWheel" ->
               [blank EXCEPT !.advancedColorGrade.colorWheels =
                                <<[ZeroWheels EXCEPT ![change.wheel] = change.value]>>]
         [] change.kind = "block" ->
               [blank EXCEPT !.advancedColorGrade[change.block] = <<change.value>>]

\* updateLayer / resetLayer of the grading operations: the record a call makes of a layer
\* record; `change` names the call and carries its arguments.
updateLayer(layer, change) ==
    CASE change.kind = "preset" ->
            [layer EXCEPT !.lutPreset = change.lut, !.lutIntensity = <<change.intensity>>]
      [] change.kind = "reset" ->
            [layer EXCEPT !.lutPreset = "null", !.lutIntensity = <<DefaultIntensity>>,
                          !.manualAdjustments = <<>>, !.advancedColorGrade = NoAdvanced]
      [] change.kind = "manual" ->
            LET adjustments == IF layer.manualAdjustments = <<>> THEN ZeroManual
                               ELSE layer.manualAdjustments[1]
            IN [layer EXCEPT !.manualAdjustments =
                                <<[adjustments EXCEPT ![change.adjustment] = change.value]>>]
      [] change.kind = "colorWheel" ->
            LET colorWheels == IF layer.advancedColorGrade.colorWheels = <<>> THEN ZeroWheels
                               ELSE layer.advancedColorGrade.colorWheels[1]
            IN [layer EXCEPT !.advancedColorGrade.colorWheels =
                                <<[colorWheels EXCEPT ![change.wheel] = change.value]>>]
      [] change.kind = "block" ->
            [layer EXCEPT !.advancedColorGrade[change.block] = <<change.value>>]

\* setLayers(prev => prev.map(...)) of applyColorGrade, resetColorGrade and
\* applyManualAdjustment, with the filters re-derived inside the updater for each touched
\* record; no snapshot is taken.
Grade(layerId, change) ==
    LET T == GradeTargets(layers, layerId)
        newLayers == [i \in 1..Len(layers) |->
                        IF i \in T THEN updateLayer(layers[i], change) ELSE layers[i]]
    IN /\ layers' = newLayers
       /\ objects' = ApplyFilters(objects, newLayers, T)
       /\ layersDirty' = TRUE
       /\ UNCHANGED <<activeObject, selectedLayerId, layerCountRef, historyRef, historyIndexRef,
                      renderedLayers, renderedSelected, pendingAdds, pendingRemovals,
                      pendingLoads, timers, cleaned>>

\* The operations of the advanced panels: the same setLayers call, then every image
\* drawable in scope gets the filters of the record the callback's closure holds for its
\* id (`layers` of the last render), updated by the call only when the call names that id.
GradeFromClosure(layerId, change) ==
    LET T == GradeTargets(layers, layerId)
        Found(id) == {k \in 1..Len(renderedLayers) : renderedLayers[k].id = id}
    IN /\ layers' = [i \in 1..Len(layers) |->
                       IF i \in T THEN updateLayer(layers[i], change) ELSE layers[i]]
       /\ objects' =
             [i \in 1..Len(objects) |->
                 LET o == objects[i]
                 IN IF (layerId = NoLayer \/ o.layerId = layerId) /\ o.type = "image"
                        /\ Found(o.layerId) # {}
                    THEN LET k == CHOOSE k \in Found(o.layerId) : \A m \in Found(o.layerId) : k <= m
                             layer == renderedLayers[k]
                         IN [o EXCEPT !.filters =
                                applyAllFiltersToImage(o, IF layerId = o.layerId
                                                          THEN updateLayer(layer, change)
                                                          ELSE layer)]
                    ELSE o]
       /\ layersDirty' = TRUE
       /\ UNCHANGED <<activeObject, selectedLayerId, layerCountRef, historyRef, historyIndexRef,
                      renderedLayers, renderedSelected, pendingAdds, pendingRemovals,
                      pendingLoads, timers, cleaned>>

\* applyColorGrade(lut, intensity, layerId?)
applyColorGrade(lut, intensity, layerId) ==
    Grade(layerId, [kind |-> "preset", lut |-> lut, intensity |-> intensity])

\* resetColorGrade(layerId?)
resetColorGrade(layerId) ==
    Grade(layerId, [kind |-> "reset"])

\* applyManualAdjustment(adjustment, value, layerId?)
applyManualAdjustment(adjustment, value, layerId) ==
    Grade(layerId, [kind |-> "manual", adjustment |-> adjustment, value |-> value])

\* applyColorWheel(wheel, value, layerId?)
applyColorWheel(wheel, value, layerId) ==
    GradeFromClosure(layerId, [kind |-> "colorWheel", wheel |-> wheel, value |-> value])

\* applyCurves, applyPrimaryAdjustments, applyPrimaryBars, applyAdvancedCurves, applyHSL,
\* applyAdvancedAdjustments (value, layerId?): each replaces its block of advancedColorGrade.
applyCurves(curves, layerId) ==
    GradeFromClosure(layerId, [kind |-> "block", block |-> "curves", value |-> curves])
applyPrimaryAdjustments(adjustments, layerId) ==
    GradeFromClosure(layerId, [kind |-> "block", block |-> "primaryAdjustments", value |-> adjustments])
applyPrimaryBars(bars, layerId) ==
    GradeFromClosure(layerId, [kind |-> "block", block |-> "primaryBars", value |-> bars])
applyAdvancedCurves(curves, layerId) ==
    GradeFromClosure(layerId, [kind |-> "block", block |-> "advancedCurves", value |-> curves])
applyHSL(hsl, layerId) ==
    GradeFromClosure(layerId, [kind |-> "block", block |-> "hslAdjustments", value |-> hsl])
applyAdvancedAdjustments(advanced, layerId) ==
    GradeFromClosure(layerId, [kind |-> "block", block |-> "advancedAdjustments", value |-> advanced])

\* selectLayer
selectLayer(layerId) ==
    LET i == FindIndex(objects, layerId)
    IN /\ selectedLayerId' = layerId
       /\ activeObject' = IF i # 0 THEN objects[i].oid ELSE activeObject
       /\ UNCHANGED <<layers, objects, layerCountRef, historyRef, historyIndexRef,
                      renderedLayers, renderedSelected, layersDirty, pendingAdds,
                      pendingRemovals, pendingLoads, timers, cleaned>>

\* toggleLayerVisibility: only when the id resolves to a drawable; no snapshot is taken.
toggleLayerVisibility(layerId) ==
    LET i == FindIndex(objects, layerId)
    IN /\ i # 0
       /\ objects' = [objects EXCEPT ![i].visible = ~objects[i].visible]
       /\ layers' = [k \in 1..Len(layers) |->
                       IF layers[k].id = layerId
                       THEN [layers[k] EXCEPT !.visible = ~layers[k].visible] ELSE layers[k]]
       /\ layersDirty' = TRUE
       /\ UNCHANGED <<activeObject, selectedLayerId, layerCountRef, historyRef, historyIndexRef,
                      renderedLayers, renderedSelected, pendingAdds, pendingRemovals,
                      pendingLoads, timers, cleaned>>

\* toggleLayerLock: only when the id resolves to a drawable; no snapshot is taken.
toggleLayerLock(layerId) ==
    LET i == FindIndex(objects, layerId)
    IN /\ i # 0
       /\ objects' = [objects EXCEPT ![i].selectable = ~objects[i].selectable]
       /\ layers' = [k \in 1..Len(layers) |->
                       IF layers[k].id = layerId
                       THEN [layers[k] EXCEPT !.locked = ~layers[k].locked] ELSE layers[k]]
       /\ layersDirty' = TRUE
       /\ UNCHANGED <<activeObject, selectedLayerId, layerCountRef, historyRef, historyIndexRef,
                      renderedLayers, renderedSelected, pendingAdds, pendingRemovals,
                      pendingLoads, timers, cleaned>>

\* deleteLayer: snapshot; remove every drawable with the id and discard the active object
\* if any was removed; drop the record; clear selectedLayerId if the rendered selection was
\* this layer; schedule the orphan sweep.
deleteLayer(layerId) ==
    /\ saveHistory
    /\ LET found == \E i \in 1..Len(objects) : objects[i].layerId = layerId
           cleared == found /\ activeObject # 0
       IN /\ objects' = SelectSeq(objects, LAMBDA o : o.layerId # layerId)
          /\ activeObject' = IF found THEN 0 ELSE activeObject
          /\ selectedLayerId' = IF cleared \/ renderedSelected = layerId
                                THEN NoLayer ELSE selectedLayerId
    /\ layers' = SelectSeq(layers, LAMBDA l : l.id # layerId)
    /\ layersDirty' = TRUE
    /\ timers' = timers + 1
    /\ UNCHANGED <<layerCountRef, renderedLayers, renderedSelected, pendingAdds,
                   pendingRemovals, pendingLoads, cleaned>>

ReconcileLayers_inverted(ls, os) == SelectSeq(ls, LAMBDA l : l.id \notin ObjectTags(os))

\* The layer records that have a drawable, and the drawables that have a layer record.
ReconcileLayers(ls, os) == SelectSeq(ls, LAMBDA l : l.id \in ObjectTags(os))
ReconcileObjects(ls, os) == SelectSeq(os, LAMBDA o : o.layerId \in LayerIds(ls))

\* cleanupOrphanedLayers, run by the timeout deleteLayer set. React runs the setLayers
\* updater either inside the call (`eager`) or with the next render; `cleaned` is assigned
\* by the updater and returned by the call.
cleanupOrphanedLayers(eager) ==
    /\ timers > 0
    /\ timers' = timers - 1
    /\ layers' = ReconcileLayers(layers, objects)
    /\ objects' = ReconcileObjects(layers, objects)
    /\ LET gone == activeObject # 0 /\ activeObject \notin {objects'[i].oid : i \in 1..Len(objects')}
       IN /\ activeObject' = IF gone THEN 0 ELSE activeObject
          /\ selectedLayerId' = IF gone THEN NoLayer ELSE selectedLayerId
    /\ cleaned' = IF eager
                  THEN \/ Len(ReconcileLayers(layers, objects)) < Len(layers)
                       \/ Len(ReconcileObjects(layers, objects)) < Len(objects)
                  ELSE FALSE
    /\ layersDirty' = TRUE
    /\ UNCHANGED <<layerCountRef, historyRef, historyIndexRef, renderedLayers,
                   renderedSelected, pendingAdds, pendingRemovals, pendingLoads>>

----------------------------------------------------------------------------
(* Undo / redo *)

\* undo: nothing at index <= 0; else step back and start loading that entry.
undo ==
    IF historyIndexRef <= 0
    THEN UNCHANGED progVars
    ELSE /\ historyIndexRef' = historyIndexRef - 1
         /\ pendingLoads' = Append(pendingLoads, historyRef[historyIndexRef])
         /\ UNCHANGED <<layers, objects, activeObject, selectedLayerId, layerCountRef,
                        historyRef, renderedLayers, renderedSelected, layersDirty,
                        pendingAdds, pendingRemovals, timers, cleaned>>

\* redo: nothing at the last index; else step forward and start loading that entry.
redo ==
    IF historyIndexRef >= Len(historyRef) - 1
    THEN UNCHANGED progVars
    ELSE /\ historyIndexRef' = historyIndexRef + 1
         /\ pendingLoads' = Append(pendingLoads, historyRef[historyIndexRef + 2])
         /\ UNCHANGED <<layers, objects, activeObject, selectedLayerId, layerCountRef,
                        historyRef, renderedLayers, renderedSelected, layersDirty,
                        pendingAdds, pendingRemovals, timers, cleaned>>

\* loadFromJSON completes: the canvas is cleared (the active object is discarded), the
\* drawables of the entry are created anew, and the callback sets the entry's layer list.
loadFromJSON(i) ==
    /\ i \in 1..Len(pendingLoads)
    /\ objects' = Deserialize(pendingLoads[i].canvasState, HeldOids)
    /\ activeObject' = 0
    /\ selectedLayerId' = IF activeObject # 0 THEN NoLayer ELSE selectedLayerId
    /\ layers' = pendingLoads[i].layers
    /\ layersDirty' = TRUE
    /\ pendingLoads' = RemoveAt(pendingLoads, i)
    /\ UNCHANGED <<layerCountRef, historyRef, historyIndexRef, renderedLayers,
                   renderedSelected, pendingAdds, pendingRemovals, timers, cleaned>>

----------------------------------------------------------------------------
(* Rendering *)

\* A render of the hook followed by its effects: the callbacks close over the new state;
\* when `layers` changed the counter is kept ahead of the ids and the grades of the image
\* layers are restored; a selection that names no layer is reset.
render ==
    /\ layersDirty \/ renderedSelected # selectedLayerId
    /\ LET sel == IF selectedLayerId # NoLayer /\ selectedLayerId \notin LayerIds(layers)
                  THEN NoLayer ELSE selectedLayerId
       IN /\ selectedLayerId' = sel
          /\ renderedSelected' = sel
    /\ renderedLayers' = layers
    /\ layersDirty' = FALSE
    /\ layerCountRef' = IF layersDirty THEN Max(layerCountRef, getMaxLayerSuffix(layers))
                        ELSE layerCountRef
    /\ objects' = IF layersDirty
                  THEN ApplyFilters(objects, layers, {k \in 1..Len(layers) : layers[k].type = "image"})
                  ELSE objects
    /\ UNCHANGED <<layers, activeObject, historyRef, historyIndexRef, pendingAdds,
                   pendingRemovals, pendingLoads, timers, cleaned>>

----------------------------------------------------------------------------
(* The project store (hooks/useCarouselProject) *)

\* A slide id no slide carries.
NoSlide == 0

\* createDefaultSlide with the id generateId returned: named after the time of creation,
\* no layers. The canvas size is the same default for every slide and is left out.
createDefaultSlide(id) == [id |-> id, name |-> <<id, 0>>, layers |-> <<>>]

\* A JavaScript object with a `slides` array.
ProjectOf(slides) == [type |-> "object", hasSlides |-> TRUE, slides |-> slides]

\* createDefaultProject: one default slide.
createDefaultProject(id) == ProjectOf(<<createDefaultSlide(id)>>)

SlideIds(slides) == {slides[i].id : i \in 1..Len(slides)}

\* slides.findIndex(s => s.id === slideId), -1 when there is none.
findSlideIndex(slides, slideId) ==
    IF slideId \in SlideIds(slides)
    THEN (CHOOSE i \in 1..Len(slides) :
             /\ slides[i].id = slideId
             /\ \A j \in 1..(i - 1) : slides[j].id # slideId) - 1
    ELSE -1

\* project.slides[currentSlideIndex] is defined.
HasSlideAt(slides, index) == index + 1 \in 1..Len(slides)

\* currentSlide?.layers of a render: undefined when there is no current slide.
InitialLayersOf(slides, index) ==
    IF HasSlideAt(slides, index)
    THEN [defined |-> TRUE, layers |-> slides[index + 1].layers]
    ELSE [defined |-> FALSE, layers |-> <<>>]

\* The store is usable: the parsed value is an object with a slides array.
Renderable == project.type = "object" /\ project.hasSlides

\* addSlide: a default slide is appended and becomes current.
addSlide ==
    /\ project' = [project EXCEPT !.slides = Append(@, createDefaultSlide(clock + 1))]
    /\ currentSlideIndex' = Len(project.slides)
    /\ clock' = clock + 1
    /\ storeDirty' = TRUE
    /\ UNCHANGED <<renderedStore, effects, exported, storage>>

\* deleteSlide without the replacement of the last slide.
deleteSlide_noReplacement(slideId) ==
    LET newSlides == SelectSeq(project.slides, LAMBDA s : s.id # slideId)
        deletedIndex == findSlideIndex(project.slides, slideId)
        closedIndex == renderedStore.currentSlideIndex
    IN /\ project' = [project EXCEPT !.slides = newSlides]
       /\ currentSlideIndex' = IF deletedIndex <= closedIndex
                               THEN Max(0, closedIndex - 1) ELSE currentSlideIndex
       /\ clock' = clock
       /\ storeDirty' = TRUE
       /\ UNCHANGED <<renderedStore, effects, exported, storage>>

\* deleteSlide: the slide is filtered out; an emptied project gets a new default slide;
\* otherwise the index moves back by one when the deleted position is at or before the
\* index the callback closed over (findIndex gives -1 for an id that is not there).
deleteSlide(slideId) ==
    LET newSlides == SelectSeq(project.slides, LAMBDA s : s.id # slideId)
        deletedIndex == findSlideIndex(project.slides, slideId)
        closedIndex == renderedStore.currentSlideIndex
    IN /\ IF newSlides = <<>>
          THEN /\ project' = [project EXCEPT !.slides = <<createDefaultSlide(clock + 1)>>]
               /\ currentSlideIndex' = 0
               /\ clock' = clock + 1
          ELSE /\ project' = [project EXCEPT !.slides = newSlides]
               /\ currentSlideIndex' = IF deletedIndex <= closedIndex
                                       THEN Max(0, closedIndex - 1) ELSE currentSlideIndex
               /\ clock' = clock
       /\ storeDirty' = TRUE
       /\ UNCHANGED <<renderedStore, effects, exported, storage>>

\* updateSlide(slideId, {layers}): the slide with that id gets the layer list; setProject
\* is handed a new object whether or not a slide matched.
updateSlide(slideId, newLayers) ==
    /\ project' = [project EXCEPT !.slides =
                      [i \in 1..Len(@) |-> IF @[i].id = slideId
                                           THEN [@[i] EXCEPT !.layers = newLayers] ELSE @[i]]]
    /\ storeDirty' = TRUE

\* duplicateSlide that puts the copy at the end of the list.
duplicateSlide_append(slideId) ==
    LET slideIndex == findSlideIndex(project.slides, slideId)
    IN IF slideIndex = -1
       THEN UNCHANGED storeVars
       ELSE LET source == project.slides[slideIndex + 1]
                newSlide == [source EXCEPT !.id = clock + 1, !.name = <<@[1], @[2] + 1>>]
            IN /\ project' = [project EXCEPT !.slides = Append(@, newSlide)]
               /\ currentSlideIndex' = slideIndex + 1
               /\ clock' = clock + 1
               /\ storeDirty' = TRUE
               /\ UNCHANGED <<renderedStore, effects, exported, storage>>

\* duplicateSlide: a copy of the slide with a new id and "(Copy)" added to the name is
\* spliced in after it and becomes current; an unknown id returns the previous project.
duplicateSlide(slideId) ==
    LET slideIndex == findSlideIndex(project.slides, slideId)
    IN IF slideIndex = -1
       THEN UNCHANGED storeVars
       ELSE LET source == project.slides[slideIndex + 1]
                newSlide == [source EXCEPT !.id = clock + 1, !.name = <<@[1], @[2] + 1>>]
            IN /\ project' = [project EXCEPT !.slides = InsertAt(@, slideIndex + 1, newSlide)]
               /\ currentSlideIndex' = slideIndex + 1
               /\ clock' = clock + 1
               /\ storeDirty' = TRUE
               /\ UNCHANGED <<renderedStore, effects, exported, storage>>

\* setCurrentSlide: the index of the id in the slides the callback closed over, if any.
setCurrentSlide(slideId) ==
    LET index == findSlideIndex(renderedStore.slides, slideId)
    IN /\ currentSlideIndex' = IF index # -1 THEN index ELSE currentSlideIndex
       /\ storeDirty' = (storeDirty \/ (index # -1 /\ index # currentSlideIndex))
       /\ UNCHANGED <<project, renderedStore, effects, clock, exported, storage>>

\* The store as the specifications of the editor alone hold it: never touched.
StoreIdle ==
    /\ project = createDefaultProject(1)
    /\ currentSlideIndex = 0
    /\ renderedStore = [slides |-> project.slides, currentSlideIndex |-> 0]
    /\ storeDirty = FALSE
    /\ effects = {}
    /\ clock = 1
    /\ exported = <<>>
    /\ storage = [kind |-> "absent"]

----------------------------------------------------------------------------
(* The editor session *)

\* Layer lists a slide may hold when the editor mounts: none, or records persisted by an
\* earlier session. The canvas is created empty either way (drawables are not restored).
StoredLayerLists == {<<>>, <<NewLayer(LayerId("image", 1), "image", "a.png")>>}

\* The `layers` prop changed to the list stored with another slide: the sync effect sets
\* it as the layer list. The canvas is not rebuilt, and the counter effect runs only with
\* the render that follows.
loadSlideLayers(initialLayers) ==
    /\ layers' = initialLayers
    /\ layersDirty' = TRUE
    /\ UNCHANGED <<objects, activeObject, selectedLayerId, layerCountRef, historyRef,
                   historyIndexRef, renderedLayers, renderedSelected, pendingAdds,
                   pendingRemovals, pendingLoads, timers, cleaned>>

\* The state after the hook has mounted and its effects have run.
Init ==
    /\ layers \in StoredLayerLists
    /\ objects = <<>>
    /\ activeObject = 0
    /\ selectedLayerId = NoLayer
    /\ layerCountRef = getMaxLayerSuffix(layers)
    /\ historyRef = <<>>
    /\ historyIndexRef = -1
    /\ renderedLayers = layers
    /\ renderedSelected = NoLayer
    /\ layersDirty = FALSE
    /\ pendingAdds = <<>>
    /\ pendingRemovals = <<>>
    /\ pendingLoads = <<>>
    /\ timers = 0
    /\ cleaned = FALSE
    /\ calls = <<>>
    /\ evaluated = <<>>
    /\ StoreIdle

\* Ids the panels can name: those of the rendered layer list.
UiIds == LayerIds(renderedLayers)

\* No promise pending, no timeout pending, and the last state change has been rendered.
Quiet ==
    /\ pendingAdds = <<>>
    /\ pendingRemovals = <<>>
    /\ pendingLoads = <<>>
    /\ timers = 0
    /\ ~layersDirty
    /\ renderedSelected = selectedLayerId

\* What a caller can observe of the session.
Observation ==
    [layers |-> layers, objects |-> objects, selectedLayerId |-> selectedLayerId,
     activeObject |-> activeObject, historyRef |-> historyRef,
     historyIndexRef |-> historyIndexRef, quiet |-> Quiet]

Logged(op, arg) ==
    /\ calls' = Append(calls, [op |-> op, arg |-> arg, pre |-> Observation])
    /\ UNCHANGED <<evaluated, storeVars>>

\* An operation the user issues through the panels or the toolbar.
Op(name, arg, A) == Len(calls) < MaxCalls /\ A /\ Logged(name, arg)
\* A step the runtime takes: a promise settles, a timeout fires, React renders.
Run(A) == A /\ UNCHANGED <<calls, evaluated, storeVars>>
\* A step of the runtime that ends in toast.error.
Fail(A) == A /\ Logged("error", <<>>)

AddText == \E t \in TextValues : Op("addText", <<t>>, addText(t))
AddMedia ==
    \E k \in {"image", "video"}, u \in GoodUrls \cup BadUrls : Op("addMedia", <<k, u>>, addMedia(k, u))
AddMediaLoaded == \E i \in 1..Len(pendingAdds) : Run(addMediaLoaded(i))
AddMediaFailed == \E i \in 1..Len(pendingAdds) : Fail(addMediaFailed(i))
UpdateTextLayer ==
    \E id \in UiIds, t \in TextValues : Op("updateTextLayer", <<id, t>>, updateTextLayer(id, t))
RemoveBackground ==
    \E id \in UiIds : Op("removeBackgroundFromImage", <<id>>, removeBackgroundFromImage(id))
RemoveBackgroundDone == \E k \in 1..Len(pendingRemovals) : Run(removeBackgroundDone(k))
RemoveBackgroundFailed == \E k \in 1..Len(pendingRemovals) : Fail(removeBackgroundFailed(k))
ApplyColorGrade ==
    \E lut \in LutPresets, n \in Intensities, id \in UiIds \cup {NoLayer} :
        Op("applyColorGrade", <<lut, n, id>>, applyColorGrade(lut, n, id))
ResetColorGrade == \E id \in UiIds \cup {NoLayer} : Op("resetColorGrade", <<id>>, resetColorGrade(id))
SelectLayer == \E id \in UiIds : Op("selectLayer", <<id>>, selectLayer(id))
ToggleLayerVisibility ==
    \E id \in UiIds : Op("toggleLayerVisibility", <<id>>, toggleLayerVisibility(id))
ToggleLayerLock == \E id \in UiIds : Op("toggleLayerLock", <<id>>, toggleLayerLock(id))
DeleteLayer == \E id \in UiIds : Op("deleteLayer", <<id>>, deleteLayer(id))
LoadSlideLayers ==
    \E stored \in StoredLayerLists \ {<<>>} : Op("setCurrentSlide", <<>>, loadSlideLayers(stored))
Undo == Op("undo", <<>>, undo)
Redo == Op("redo", <<>>, redo)
CleanupOrphanedLayers == \E eager \in BOOLEAN : Run(cleanupOrphanedLayers(eager))
LoadFromJSON == \E i \in 1..Len(pendingLoads) : Run(loadFromJSON(i))
Render == Run(render)

Next ==
    \/ AddText
    \/ AddMedia
    \/ AddMediaLoaded
    \/ AddMediaFailed
    \/ UpdateTextLayer
    \/ RemoveBackground
    \/ RemoveBackgroundDone
    \/ RemoveBackgroundFailed
    \/ ApplyColorGrade
    \/ ResetColorGrade
    \/ SelectLayer
    \/ ToggleLayerVisibility
    \/ ToggleLayerLock
    \/ DeleteLayer
    \/ LoadSlideLayers
    \/ Undo
    \/ Redo
    \/ CleanupOrphanedLayers
    \/ LoadFromJSON
    \/ Render

Spec == Init /\ [][Next]_vars

----------------------------------------------------------------------------
(* The History Manager on its own: one text layer, edited, undone and redone without a
   bound on the number of operations, so that the history reaches its limit. *)

TextLayer1 == LayerId("text", 1)

\* The session after addText("hello") on a new slide and the render that follows.
InitHistory ==
    /\ layers = <<NewLayer(TextLayer1, "text", "")>>
    /\ objects = <<NewObject(1, TextLayer1, "text", "hello")>>
    /\ activeObject = 1
    /\ selectedLayerId = TextLayer1
    /\ layerCountRef = 1
    /\ historyRef = <<[layers |-> <<>>, canvasState |-> <<>>]>>
    /\ historyIndexRef = 0
    /\ renderedLayers = layers
    /\ renderedSelected = TextLayer1
    /\ layersDirty = FALSE
    /\ pendingAdds = <<>>
    /\ pendingRemovals = <<>>
    /\ pendingLoads = <<>>
    /\ timers = 0
    /\ cleaned = FALSE
    /\ calls = <<>>
    /\ evaluated = <<>>
    /\ StoreIdle

RetypeText == \E id \in UiIds : Run(updateTextLayer(id, "hello"))
UndoOne == Len(pendingLoads) < MaxInflight /\ Run(undo)
RedoOne == Len(pendingLoads) < MaxInflight /\ Run(redo)

NextHistory ==
    \/ RetypeText
    \/ UndoOne
    \/ RedoOne
    \/ LoadFromJSON
    \/ Render

SpecHistory == InitHistory /\ [][NextHistory]_vars

\* A step of an operation that calls saveHistory.
SnapshotOp ==
    \/ \E t \in TextValues : addText(t)
    \/ \E k \in {"image", "video"}, u \in GoodUrls \cup BadUrls : addMedia(k, u)
    \/ \E id \in UiIds, t \in TextValues : updateTextLayer(id, t)
    \/ \E id \in UiIds : removeBackgroundFromImage(id)
    \/ \E id \in UiIds : deleteLayer(id)

Min(a, b) == IF a <= b THEN a ELSE b

HistoryWithinBounds ==
    /\ Len(historyRef) <= HistoryLimit
    /\ -1 <= historyIndexRef
    /\ historyIndexRef < Len(historyRef)

\* What a snapshot leaves: the new entry last, the index on it, the entries up to the old
\* index kept in order before it (less the oldest one on overflow), the redo entries gone.
SnapshotShape ==
    LET kept == SubSeq(historyRef, 1, historyIndexRef + 1)
        evict == Len(kept) + 1 > HistoryLimit
        n == Len(historyRef')
    IN /\ n = Min(Len(kept) + 1, HistoryLimit)
       /\ historyIndexRef' = n - 1
       /\ historyRef'[n] = HistoryState
       /\ SubSeq(historyRef', 1, n - 1) = (IF evict THEN Tail(kept) ELSE kept)

\* C4: the history never holds more than 50 entries and -1 <= position < length in every
\* state; right after every snapshot the new entry is the last one, the position is
\* length-1, the former redo entries are gone and the oldest entry is evicted on overflow.
C4_HistoryBounded ==
    /\ []HistoryWithinBounds
    /\ [][SnapshotOp => SnapshotShape]_vars

\* The history is full, the first snapshot of the session has been evicted, and the
\* position is on the last entry.
C4_Witness ==
    /\ Len(historyRef) = HistoryLimit
    /\ historyRef[1].layers # <<>>
    /\ historyIndexRef = HistoryLimit - 1

----------------------------------------------------------------------------
(* The Reconciler on arbitrary inputs: any layer list with distinct ids against any list of
   tagged drawables, with two orphan sweeps scheduled. *)

PairLayerIds == {LayerId("image", 1), LayerId("text", 2)}
PairObjectTags == PairLayerIds \cup {LayerId("image", 3)}
SeqsUpTo(S, n) == UNION {[1..k -> S] : k \in 0..n}
ObjectType(id) == IF id[1] = "text" THEN "text" ELSE "image"

InitReconcile ==
    /\ \E ids \in SeqsUpTo(PairLayerIds, MaxPairLen) :
          /\ \A i, j \in 1..Len(ids) : ids[i] = ids[j] => i = j
          /\ layers = [i \in 1..Len(ids) |-> NewLayer(ids[i], ids[i][1], "a.png")]
    /\ \E tags \in SeqsUpTo(PairObjectTags, MaxPairLen) :
          objects = [i \in 1..Len(tags) |-> NewObject(i, tags[i], ObjectType(tags[i]), "a.png")]
    /\ activeObject = 0
    /\ selectedLayerId = NoLayer
    /\ layerCountRef = 3
    /\ historyRef = <<>>
    /\ historyIndexRef = -1
    /\ renderedLayers = layers
    /\ renderedSelected = NoLayer
    /\ layersDirty = FALSE
    /\ pendingAdds = <<>>
    /\ pendingRemovals = <<>>
    /\ pendingLoads = <<>>
    /\ timers = 2
    /\ cleaned = FALSE
    /\ calls = <<>>
    /\ evaluated = <<>>
    /\ StoreIdle

NextReconcile ==
    \/ CleanupOrphanedLayers
    \/ Render

SpecReconcile == InitReconcile /\ [][NextReconcile]_vars

\* C6: a second orphan sweep run right after a first one changes neither the layer list
\* nor the drawables, whatever pair the first one started from.
C6_ReconcileIdempotent ==
    [][timers = 1 /\ (\E eager \in BOOLEAN : cleanupOrphanedLayers(eager))
          => layers' = layers /\ objects' = objects]_vars

\* Both sweeps have run, and the first one dropped a layer record and kept another.
C6_Witness ==
    /\ timers = 0
    /\ Len(layers) < Len(renderedLayers)
    /\ layers # <<>>


(***************************************************************************)
(* Properties of the editor session (specification Spec).                  *)
(***************************************************************************)

\* The snapshot saveHistory would store for the state the step starts in.
PreMutationSnapshot == [layers |-> layers, canvasState |-> Serialize(objects)]

\* The step ends with the snapshot of its starting state as the last, current history entry.
SnapshotAppended ==
    /\ historyRef' # <<>>
    /\ historyRef'[Len(historyRef')] = PreMutationSnapshot
    /\ historyIndexRef' = Len(historyRef') - 1

\* A step in which one of the mutating operations is called.
MutatingCall ==
    \/ \E t \in TextValues : addText(t)
    \/ \E k \in {"image", "video"}, u \in GoodUrls : addMedia(k, u)
    \/ \E id \in UiIds, t \in TextValues : updateTextLayer(id, t)
    \/ \E id \in UiIds : removeBackgroundFromImage(id)
    \/ \E id \in UiIds : deleteLayer(id)
    \/ \E lut \in LutPresets, n \in Intensities, id \in UiIds \cup {NoLayer} : applyColorGrade(lut, n, id)
    \/ \E id \in UiIds \cup {NoLayer} : resetColorGrade(id)
    \/ \E id \in UiIds : toggleLayerVisibility(id)
    \/ \E id \in UiIds : toggleLayerLock(id)

\* C2: every call of a mutating operation (add, delete, text update, colour grading, grade
\* reset, visibility or lock toggle, background removal) that is issued on a settled editor
\* appends a history snapshot of the state it starts in before it applies its change.
C2_MutationsSnapshot ==
    [][Quiet /\ MutatingCall /\ (layers' # layers \/ objects' # objects) => SnapshotAppended]_vars

\* C5: whenever the ids of the layer list and the tags of the scene drawables differ, a
\* reconciliation pass is scheduled, and after a pass the two sets are equal.
C5_ReconcileScheduled ==
    /\ [](LayerIds(layers) # ObjectTags(objects) => timers > 0)
    /\ [][(\E eager \in BOOLEAN : cleanupOrphanedLayers(eager))
            => LayerIds(layers') = ObjectTags(objects')]_vars

\* C7: the value a reconciliation pass returns is true exactly when the pass changed the
\* layer list or the scene.
C7_CleanedReportsChange ==
    [][(\E eager \in BOOLEAN : cleanupOrphanedLayers(eager))
          => (cleaned' <=> (layers' # layers \/ objects' # objects))]_vars

\* No two records of the layer list carry the same id.
DistinctIds(ls) == \A i, j \in 1..Len(ls) : ls[i].id = ls[j].id => i = j

\* A step in which an add-operation allocates an id and prepends its layer record.
Allocation ==
    \/ \E t \in TextValues : addText(t)
    \/ \E i \in 1..Len(pendingAdds) : addMediaLoaded(i)

\* C8: across every interleaving of adds, deletions, undo/redo and loading of stored layers,
\* the id an add-operation allocates differs from the id of every current layer, so the ids
\* of the layer list stay pairwise distinct.
C8_FreshIds ==
    /\ []DistinctIds(layers)
    /\ [][Allocation => Head(layers').id \notin LayerIds(layers)]_vars

\* The part of an observation that a failed call must leave alone.
Footprint(o) ==
    <<o.layers, o.objects, o.selectedLayerId, o.historyRef, o.historyIndexRef>>

\* The last call was issued on a settled editor and has ended in a reported error.
FailedCall ==
    /\ Len(calls) >= 2
    /\ calls[Len(calls)].op = "error"
    /\ calls[Len(calls) - 1].op \in {"addMedia", "removeBackgroundFromImage"}
    /\ calls[Len(calls) - 1].pre.quiet

\* C9: an add whose source fails to load, and a background removal whose remote call fails,
\* leave the layer list, the scene drawables, the selection and the history (entries and
\* position) as they were before the call.
C9_FailureLeavesState ==
    FailedCall => Footprint(Observation) = Footprint(calls[Len(calls) - 1].pre)

\* A background removal completes for a layer that is no longer in the layer list.
LateRemoval ==
    \E k \in 1..Len(pendingRemovals) :
        /\ pendingRemovals[k].layerId \notin LayerIds(layers)
        /\ removeBackgroundDone(k)

\* C10: a background removal that completes after its layer was deleted changes neither
\* the scene nor the layer list nor the selection.
C10_LateRemovalIsNoop ==
    [][LateRemoval => objects' = objects /\ layers' = layers /\ selectedLayerId' = selectedLayerId]_vars
----------------------------------------------------------------------------
(* Undo / redo round trips: up to MaxOps mutating operations, each issued once the editor
   has settled, then as many undo calls, then as many redo calls. *)

CallsOf(names) == {i \in 1..Len(calls) : calls[i].op \in names}
MutatingOps ==
    {"addText", "addMedia", "updateTextLayer", "deleteLayer", "applyColorGrade",
     "removeBackgroundFromImage"}
nMutations == Cardinality(CallsOf(MutatingOps))
nUndo == Cardinality(CallsOf({"undo"}))
nRedo == Cardinality(CallsOf({"redo"}))

\* A call issued by a scenario: the editor has settled, and the call is logged.
Scripted(name, arg, A) == Quiet /\ A /\ Logged(name, arg)
\* A scripted call that changes the layer list or the scene at once.
Mutation(name, arg, A) ==
    /\ nUndo = 0
    /\ nMutations < MaxOps
    /\ Scripted(name, arg, A)
    /\ layers' # layers \/ objects' # objects

MutateAddText == \E t \in TextValues : Mutation("addText", <<t>>, addText(t))
MutateAddImage ==
    \E u \in GoodUrls :
        nUndo = 0 /\ nMutations < MaxOps /\ Scripted("addMedia", <<"image", u>>, addMedia("image", u))
MutateText ==
    \E id \in UiIds, t \in TextValues : Mutation("updateTextLayer", <<id, t>>, updateTextLayer(id, t))
MutateDelete == \E id \in UiIds : Mutation("deleteLayer", <<id>>, deleteLayer(id))
MutateGrade ==
    \E lut \in LutPresets, n \in Intensities, id \in UiIds :
        Mutation("applyColorGrade", <<lut, n, id>>, applyColorGrade(lut, n, id))
MutateBackground ==
    \E id \in UiIds :
        /\ nUndo = 0
        /\ nMutations < MaxOps
        /\ Scripted("removeBackgroundFromImage", <<id>>, removeBackgroundFromImage(id))
UndoStep == nMutations >= 1 /\ nUndo < nMutations /\ nRedo = 0 /\ Scripted("undo", <<>>, undo)
RedoStep == nMutations >= 1 /\ nUndo = nMutations /\ nRedo < nMutations /\ Scripted("redo", <<>>, redo)

NextRoundTrip ==
    \/ MutateAddText
    \/ MutateAddImage
    \/ MutateText
    \/ MutateDelete
    \/ MutateGrade
    \/ MutateBackground
    \/ UndoStep
    \/ RedoStep
    \/ AddMediaLoaded
    \/ RemoveBackgroundDone
    \/ CleanupOrphanedLayers
    \/ LoadFromJSON
    \/ Render

SpecRoundTrip == Init /\ [][NextRoundTrip]_vars

\* The layer list and the serialized scene of an observation.
Scene(o) == <<o.layers, Serialize(o.objects)>>

\* C1: after N mutating operations from a state S0 to a state S_N, N calls of undo restore
\* S0 (layer list and serialized scene), and N calls of redo then restore S_N.
C1_UndoRedoRoundTrip ==
    /\ (Quiet /\ nMutations >= 1 /\ nUndo = nMutations /\ nRedo = 0)
          => Scene(Observation) = Scene(calls[1].pre)
    /\ (Quiet /\ nMutations >= 1 /\ nUndo = nMutations /\ nRedo = nMutations)
          => Scene(Observation) = Scene(calls[nMutations + 1].pre)

----------------------------------------------------------------------------
(* Colour grading followed by undo: a text and an image layer, the image graded up to MaxGrades times with
   intensities that differ from call to call, then undone. *)

ImageLayer2 == LayerId("image", 2)
GradeIntensities == {25, 50, 100}

\* The session after addText("hello") and addImage("a.png") on a new slide, each followed
\* by its render.
InitGrading ==
    /\ layers = <<NewLayer(ImageLayer2, "image", "a.png"), NewLayer(TextLayer1, "text", "")>>
    /\ objects = <<NewObject(1, TextLayer1, "text", "hello"),
                   NewObject(2, ImageLayer2, "image", "a.png")>>
    /\ activeObject = 2
    /\ selectedLayerId = ImageLayer2
    /\ layerCountRef = 2
    /\ historyRef = <<[layers |-> <<>>, canvasState |-> <<>>],
                      [layers |-> <<NewLayer(TextLayer1, "text", "")>>,
                       canvasState |-> Serialize(<<NewObject(1, TextLayer1, "text", "hello")>>)]>>
    /\ historyIndexRef = 1
    /\ renderedLayers = layers
    /\ renderedSelected = ImageLayer2
    /\ layersDirty = FALSE
    /\ pendingAdds = <<>>
    /\ pendingRemovals = <<>>
    /\ pendingLoads = <<>>
    /\ timers = 0
    /\ cleaned = FALSE
    /\ calls = <<>>
    /\ evaluated = <<>>
    /\ StoreIdle

nGrades == Cardinality(CallsOf({"applyColorGrade"}))
UsedIntensities == {calls[i].arg[2] : i \in CallsOf({"applyColorGrade"})}

GradeStep ==
    \E lut \in LutPresets, n \in GradeIntensities \ UsedIntensities, id \in {ImageLayer2, NoLayer} :
        /\ nUndo = 0
        /\ nGrades < MaxGrades
        /\ Scripted("applyColorGrade", <<lut, n, id>>, applyColorGrade(lut, n, id))
GradeUndo == nGrades >= 1 /\ nUndo < nGrades /\ Scripted("undo", <<>>, undo)

NextGrading ==
    \/ GradeStep
    \/ GradeUndo
    \/ LoadFromJSON
    \/ Render

SpecGrading == InitGrading /\ [][NextGrading]_vars

\* The grading parameters of the layer records of a layer list.
GradingParameters(ls) == [i \in 1..Len(ls) |-> <<ls[i].id, ls[i].lutPreset, ls[i].lutIntensity>>]

\* C3: after n grading calls on one layer with different intensities and k < n calls of
\* undo, the grading parameters of the layer are those it had after call n - k.
C3_UndoRevertsGrading ==
    (Quiet /\ nUndo >= 1 /\ nUndo < nGrades)
        => GradingParameters(layers) = GradingParameters(calls[nGrades - nUndo + 1].pre.layers)
----------------------------------------------------------------------------
(* evaluateCurve on its own: every list of up to MaxCurvePoints points on a grid of the
   unit square, evaluated at a sample inside or outside [0, 1]. *)

CurveGrid == {Frac(0, 1), Frac(1, 4), Frac(1, 2), Frac(1, 1)}
CurvePoints == [x : {Frac(0, 1), Frac(1, 2), Frac(1, 1)}, y : {Frac(0, 1), Frac(1, 1)}]
CurveSamples == CurveGrid \cup {Frac(3, 4), Frac(-1, 2), Frac(3, 2)}
Pending == <<"pending">>

InitCurve ==
    /\ layers = <<>>
    /\ objects = <<>>
    /\ activeObject = 0
    /\ selectedLayerId = NoLayer
    /\ layerCountRef = 0
    /\ historyRef = <<>>
    /\ historyIndexRef = -1
    /\ renderedLayers = <<>>
    /\ renderedSelected = NoLayer
    /\ layersDirty = FALSE
    /\ pendingAdds = <<>>
    /\ pendingRemovals = <<>>
    /\ pendingLoads = <<>>
    /\ timers = 0
    /\ cleaned = FALSE
    /\ calls = <<>>
    /\ \E points \in SeqsUpTo(CurvePoints, MaxCurvePoints), x \in CurveSamples :
          evaluated = [points |-> points, x |-> x, result |-> Pending]
    /\ StoreIdle

EvaluateCurve ==
    /\ evaluated.result = Pending
    /\ evaluated' = [evaluated EXCEPT !.result = evaluateCurve(evaluated.points, evaluated.x)]
    /\ UNCHANGED <<progVars, calls, storeVars>>

NextCurve == EvaluateCurve

SpecCurve == InitCurve /\ [][NextCurve]_vars

\* The value of the straight line through a and b at x.
OnSegment(a, b, x, y) ==
    REq(RMul(RSub(y, a.y), RSub(b.x, a.x)), RMul(RSub(x, a.x), RSub(b.y, a.y)))

\* y is a value of the piecewise-linear curve through the points at x: the y of a point
\* with the least x at or left of the covered range, that of a point with the greatest x at
\* or right of it, and otherwise a value on the segment between two neighbouring points.
Interpolates(points, x, y) ==
    LET P == {points[i] : i \in 1..Len(points)}
        lo == CHOOSE p \in P : \A q \in P : RLeq(p.x, q.x)
        hi == CHOOSE p \in P : \A q \in P : RLeq(q.x, p.x)
    IN IF RLeq(x, lo.x) THEN \E p \in P : REq(p.x, lo.x) /\ REq(y, p.y)
       ELSE IF RLeq(hi.x, x) THEN \E p \in P : REq(p.x, hi.x) /\ REq(y, p.y)
       ELSE \E a, b \in P :
               /\ RLeq(a.x, x) /\ RLeq(x, b.x) /\ ~REq(a.x, b.x)
               /\ \A q \in P : RLeq(q.x, a.x) \/ RLeq(b.x, q.x)
               /\ OnSegment(a, b, x, y)

\* C18: evaluateCurve returns x for no point, the point's y for one point, and otherwise
\* the piecewise-linear interpolation between the points sorted by x with the first / last
\* point's y at or outside the covered range; the curve (0,0),(1,1) returns x for every x in
\* [0, 1]; no call divides by zero.
C18_EvaluateCurve ==
    (evaluated # <<>> /\ evaluated.result # Pending) =>
        LET points == evaluated.points
            x == evaluated.x
            y == evaluated.result
        IN /\ y # NaN
           /\ Len(points) = 0 => y = x
           /\ Len(points) = 1 => y = points[1].y
           /\ Len(points) >= 2 => Interpolates(points, Clamp01(x), y)
           /\ (points = <<[x |-> Frac(0, 1), y |-> Frac(0, 1)], [x |-> Frac(1, 1), y |-> Frac(1, 1)]>>
                 /\ x = Clamp01(x)) => REq(y, x)

\* Two points share an x strictly inside the covered range and the curve is evaluated there.
C18_Witness ==
    /\ evaluated # <<>>
    /\ evaluated.result # Pending
    /\ evaluated.x = Frac(1, 2)
    /\ Len(evaluated.points) = 4
    /\ \E i, j, k, m \in 1..4 :
          /\ i # j
          /\ evaluated.points[i] = [x |-> Frac(1, 2), y |-> Frac(0, 1)]
          /\ evaluated.points[j] = [x |-> Frac(1, 2), y |-> Frac(1, 1)]
          /\ evaluated.points[k].x = Frac(0, 1)
          /\ evaluated.points[m].x = Frac(1, 1)

----------------------------------------------------------------------------
(* Deleting a layer and the selection *)

\* The call the step logs, if it logs one.
Issued(op) ==
    /\ Len(calls') = Len(calls) + 1
    /\ calls'[Len(calls')].op = op

\* C20: deleteLayer(id), issued when the session is quiet, removes the record with that
\* id and every drawable tagged with it; the selected layer id and the active object are
\* cleared if id was the selected layer and are left as they were if another layer (or
\* none) was selected.
C20_DeleteKeepsOtherSelection ==
    [][\A id \in UiIds :
          (Issued("deleteLayer") /\ calls'[Len(calls')].arg = <<id>> /\ Quiet)
          => /\ id \notin LayerIds(layers')
             /\ id \notin ObjectTags(objects')
             /\ IF selectedLayerId = id
                THEN selectedLayerId' = NoLayer /\ activeObject' = 0
                ELSE selectedLayerId' = selectedLayerId /\ activeObject' = activeObject]_vars

----------------------------------------------------------------------------
(* A background removal with another operation in between *)

ImageLayer1 == LayerId("image", 1)
TextLayer2 == LayerId("text", 2)

\* The session after addImage("a.png") and addText("hello") on a new slide, each followed
\* by its render.
InitRemoval ==
    /\ layers = <<NewLayer(TextLayer2, "text", ""), NewLayer(ImageLayer1, "image", "a.png")>>
    /\ objects = <<NewObject(1, ImageLayer1, "image", "a.png"),
                   NewObject(2, TextLayer2, "text", "hello")>>
    /\ activeObject = 2
    /\ selectedLayerId = TextLayer2
    /\ layerCountRef = 2
    /\ historyRef = <<[layers |-> <<>>, canvasState |-> <<>>],
                      [layers |-> <<NewLayer(ImageLayer1, "image", "a.png")>>,
                       canvasState |-> Serialize(<<NewObject(1, ImageLayer1, "image", "a.png")>>)]>>
    /\ historyIndexRef = 1
    /\ renderedLayers = layers
    /\ renderedSelected = TextLayer2
    /\ layersDirty = FALSE
    /\ pendingAdds = <<>>
    /\ pendingRemovals = <<>>
    /\ pendingLoads = <<>>
    /\ timers = 0
    /\ cleaned = FALSE
    /\ calls = <<>>
    /\ evaluated = <<>>
    /\ StoreIdle

NextRemoval ==
    \/ RemoveBackground
    \/ RemoveBackgroundDone
    \/ AddText
    \/ ApplyColorGrade
    \/ ToggleLayerVisibility
    \/ ToggleLayerLock
    \/ DeleteLayer
    \/ Undo
    \/ Redo
    \/ CleanupOrphanedLayers
    \/ LoadFromJSON
    \/ Render

SpecRemoval == InitRemoval /\ [][NextRemoval]_vars

\* Every layer record has exactly one drawable carrying its id.
OneDrawableEach(ls, os) ==
    \A i \in 1..Len(ls) : Cardinality({j \in 1..Len(os) : os[j].layerId = ls[i].id}) = 1

\* The call does not target the layer id.
NotTargeting(call, id) ==
    \/ call.op \in {"addText", "undo", "redo"}
    \/ call.op \in {"deleteLayer", "toggleLayerVisibility", "toggleLayerLock"} /\ call.arg[1] # id
    \/ call.op = "applyColorGrade" /\ call.arg[3] \notin {id, NoLayer}

\* The only background removal of the session, on layer `id`, is in flight; every layer
\* has one drawable; the calls issued since it started do not target `id`, and there is one.
RemovalInterleaved(id) ==
    /\ Len(pendingRemovals) = 1
    /\ pendingRemovals[1].layerId = id
    /\ id \in LayerIds(layers)
    /\ OneDrawableEach(layers, objects)
    /\ \E s \in 1..(Len(calls) - 1) :
          /\ calls[s].op = "removeBackgroundFromImage"
          /\ \A j \in 1..Len(calls) :
                /\ j < s => calls[j].op # "removeBackgroundFromImage"
                /\ j > s => NotTargeting(calls[j], id)

\* C11: when an operation that does not target layer A ran between the start and the
\* completion of a background removal on A, then after the completion every layer still
\* has exactly one drawable with its id, the records and drawables of the other layers
\* are as that operation left them, and A has the record and the drawable the removal
\* gives it when it runs alone (the processed image as its source and as its drawable).
C11_RemovalToleratesOthers ==
    [][\A id \in UiIds :
          (RemovalInterleaved(id) /\ removeBackgroundDone(1))
          => /\ OneDrawableEach(layers', objects')
             /\ SelectSeq(layers', LAMBDA l : l.id # id) = SelectSeq(layers, LAMBDA l : l.id # id)
             /\ SelectSeq(objects', LAMBDA o : o.layerId # id)
                    = SelectSeq(objects, LAMBDA o : o.layerId # id)
             /\ \A i \in 1..Len(layers') : layers'[i].id = id => layers'[i].sourceUrl = CutoutUrl
             /\ \A j \in 1..Len(objects') :
                   objects'[j].layerId = id => objects'[j].content = CutoutUrl]_vars

----------------------------------------------------------------------------
(* The grading panels: a session with an image, a video and a text layer, and up to
   MaxPanelCalls calls of the grading operations. *)

VideoLayer2 == LayerId("video", 2)
TextLayer3 == LayerId("text", 3)

\* Values the panels pass.
PanelIntensities == {50, 150}
ManualNames == {"exposure", "contrast", "saturation", "temperature"}
SliderValues == {40}
WheelNames == {"lift", "gamma", "gain", "offset"}
WheelValues == {Rgb(10, 0, -10)}
Pt(x, y) == [x |-> x, y |-> y]
PrimaryAdjustmentValues ==
    {[contrast |-> 20, pivot |-> 0, saturation |-> 0, hue |-> 0, temperature |-> 0, tint |-> 0,
      colorBoost |-> 0, shadowLift |-> 0, highlightGain |-> 0, midtoneDetail |-> 30]}
PrimaryBarValues ==
    {[lift |-> Rgb(0, 0, 0), gamma |-> Rgb(10, 10, 10), gain |-> Rgb(0, 0, 0),
      offset |-> Rgb(4, 0, 0)]}
CurveValues ==
    {[master |-> <<Pt(Frac(0, 1), Frac(0, 1)), Pt(Frac(1, 2), Frac(3, 4)), Pt(Frac(1, 1), Frac(1, 1))>>,
      red |-> <<>>, green |-> <<>>, blue |-> <<>>]}
AdvancedCurveValues ==
    {[hueVsHue |-> <<Pt(Frac(0, 1), Frac(1, 4)), Pt(Frac(1, 1), Frac(1, 1))>>,
      hueVsSat |-> <<>>, hueVsLum |-> <<>>, lumVsSat |-> <<>>, satVsSat |-> <<>>]}
NoShift == [hue |-> 0, saturation |-> 0, luminance |-> 0]
HslValues ==
    {[reds |-> [hue |-> 50, saturation |-> 0, luminance |-> 0], yellows |-> NoShift,
      greens |-> NoShift, cyans |-> NoShift, blues |-> NoShift, magentas |-> NoShift]}
AdvancedAdjustmentValues ==
    {[vibrance |-> 30, highlights |-> 0, shadows |-> 0, whites |-> 0, blacks |-> 0, tint |-> 10]}

\* The session after addImage("a.png"), addVideo("a.png") and addText("hello") on a new
\* slide, each followed by its render.
InitPanels ==
    LET image == NewObject(1, ImageLayer1, "image", "a.png")
        video == NewObject(2, VideoLayer2, "image", "a.png")
        text == NewObject(3, TextLayer3, "text", "hello")
        imageLayer == NewLayer(ImageLayer1, "image", "a.png")
        videoLayer == NewLayer(VideoLayer2, "video", "a.png")
    IN /\ layers = <<NewLayer(TextLayer3, "text", ""), videoLayer, imageLayer>>
       /\ objects = <<image, video, text>>
       /\ activeObject = 3
       /\ selectedLayerId = TextLayer3
       /\ layerCountRef = 3
       /\ historyRef = <<[layers |-> <<>>, canvasState |-> <<>>],
                         [layers |-> <<imageLayer>>, canvasState |-> Serialize(<<image>>)],
                         [layers |-> <<videoLayer, imageLayer>>,
                          canvasState |-> Serialize(<<image, video>>)]>>
       /\ historyIndexRef = 2
       /\ renderedLayers = layers
       /\ renderedSelected = TextLayer3
       /\ layersDirty = FALSE
       /\ pendingAdds = <<>>
       /\ pendingRemovals = <<>>
       /\ pendingLoads = <<>>
       /\ timers = 0
       /\ cleaned = FALSE
       /\ calls = <<>>
       /\ evaluated = <<>>
       /\ StoreIdle

PanelIds == UiIds \cup {NoLayer}

\* The number of calls of a session at the panels.
MaxPanelCalls == 2
PanelOp(name, arg, A) == Len(calls) < MaxPanelCalls /\ A /\ Logged(name, arg)

PanelColorGrade ==
    \E lut \in LutPresets, n \in PanelIntensities, id \in PanelIds :
        PanelOp("applyColorGrade", <<lut, n, id>>, applyColorGrade(lut, n, id))
PanelReset == \E id \in PanelIds : PanelOp("resetColorGrade", <<id>>, resetColorGrade(id))
PanelManual ==
    \E a \in ManualNames, v \in SliderValues, id \in PanelIds :
        PanelOp("applyManualAdjustment", <<a, v, id>>, applyManualAdjustment(a, v, id))
PanelColorWheel ==
    \E w \in WheelNames, v \in WheelValues, id \in PanelIds :
        PanelOp("applyColorWheel", <<w, v, id>>, applyColorWheel(w, v, id))
PanelCurves ==
    \E v \in CurveValues, id \in PanelIds : PanelOp("applyCurves", <<v, id>>, applyCurves(v, id))
PanelPrimaryAdjustments ==
    \E v \in PrimaryAdjustmentValues, id \in PanelIds :
        PanelOp("applyPrimaryAdjustments", <<v, id>>, applyPrimaryAdjustments(v, id))
PanelPrimaryBars ==
    \E v \in PrimaryBarValues, id \in PanelIds :
        PanelOp("applyPrimaryBars", <<v, id>>, applyPrimaryBars(v, id))
PanelAdvancedCurves ==
    \E v \in AdvancedCurveValues, id \in PanelIds :
        PanelOp("applyAdvancedCurves", <<v, id>>, applyAdvancedCurves(v, id))
PanelHSL == \E v \in HslValues, id \in PanelIds : PanelOp("applyHSL", <<v, id>>, applyHSL(v, id))
PanelAdvancedAdjustments ==
    \E v \in AdvancedAdjustmentValues, id \in PanelIds :
        PanelOp("applyAdvancedAdjustments", <<v, id>>, applyAdvancedAdjustments(v, id))

NextPanels ==
    \/ PanelColorGrade
    \/ PanelReset
    \/ PanelManual
    \/ PanelColorWheel
    \/ PanelCurves
    \/ PanelPrimaryAdjustments
    \/ PanelPrimaryBars
    \/ PanelAdvancedCurves
    \/ PanelHSL
    \/ PanelAdvancedAdjustments
    \/ Render

SpecPanels == InitPanels /\ [][NextPanels]_vars


----------------------------------------------------------------------------
(* Properties of the grading operations *)

\* The filter list of the drawable of layer `id` in the scene `os` (none: <<>>).
FiltersOf(os, id) == IF FindIndex(os, id) = 0 THEN <<>> ELSE os[FindIndex(os, id)].filters

\* The layers a grading call with this id argument is specified to reach.
Addressed(ls, id) ==
    {i \in 1..Len(ls) : IF id = NoLayer THEN ls[i].type \in {"image", "video"} ELSE ls[i].id = id}

\* The call logged by the step, when the step logs one.
LastCall == calls'[Len(calls')]

\* C13: applyColorGrade and applyManualAdjustment with a layerId change the grading
\* parameters and the drawable's op list of that layer and of no other; without a layerId
\* they change those of every image layer and every video layer, and of no text layer
\* (a text drawable carries no op list).
C13_GradingScope ==
    [][(Issued("applyColorGrade") \/ Issued("applyManualAdjustment"))
       => LET id == LastCall.arg[3]
          IN \A i \in 1..Len(layers) :
                IF i \in Addressed(layers, id)
                THEN /\ Issued("applyColorGrade")
                        => /\ layers'[i].lutPreset = LastCall.arg[1]
                           /\ layers'[i].lutIntensity = <<LastCall.arg[2]>>
                     /\ Issued("applyManualAdjustment")
                        => /\ layers'[i].manualAdjustments # <<>>
                           /\ layers'[i].manualAdjustments[1][LastCall.arg[1]] = LastCall.arg[2]
                     /\ layers[i].type # "text"
                        => FiltersOf(objects', layers[i].id)
                               = applyAllFiltersToImage(objects[1], layers'[i])
                ELSE /\ layers'[i] = layers[i]
                     /\ FiltersOf(objects', layers[i].id) = FiltersOf(objects, layers[i].id)]_vars


\* The default grading parameters: no preset, intensity 75 (the value an absent intensity
\* stands for), no manual adjustments, no advanced grade.
DefaultGrading(layer) ==
    /\ layer.lutPreset \in {"null", NoPreset}
    /\ layer.lutIntensity \in {<<>>, <<DefaultIntensity>>}
    /\ layer.manualAdjustments = <<>>
    /\ layer.advancedColorGrade = NoAdvanced

\* C15: after resetColorGrade(layerId), whatever grading calls came before, the layer has
\* the default grading parameters and its drawable an empty op list; without a layerId
\* this holds for every image layer and every video layer.
C15_ResetRestoresDefault ==
    [][Issued("resetColorGrade")
       => \A i \in Addressed(layers, LastCall.arg[1]) :
             /\ DefaultGrading(layers'[i])
             /\ FiltersOf(objects', layers[i].id) = <<>>]_vars


\* The ops of the preset stage in an op list.
PresetStage(ops) == SelectSeq(ops, LAMBDA op : op[1] = "preset")

\* C19: a grading parameter outside its documented bounds is clamped before it is stored
\* or turned into ops: every stored preset intensity is within 0..100, every stored manual
\* slider within -100..100, and the preset ops of every drawable are those of an intensity
\* within 0..100.
C19_ParametersClamped ==
    /\ \A i \in 1..Len(layers) :
          /\ layers[i].lutIntensity # <<>> => layers[i].lutIntensity[1] \in 0..100
          /\ layers[i].manualAdjustments # <<>>
             => \A a \in ManualNames : layers[i].manualAdjustments[1][a] \in -100..100
    /\ \A j \in 1..Len(objects) :
          \/ PresetStage(objects[j].filters) = <<>>
          \/ \E lut \in DOMAIN PresetRecipes, n \in 0..100 :
                PresetStage(objects[j].filters) = PresetOps(lut, n)


\* C12: once no grading change is pending (the editor has rendered the current layer
\* list), the op list of the drawable of every image and video layer is the Grading
\* Engine's output for the layer's stored parameters, also when several grading calls
\* were issued before a render.
C12_DrawableMatchesParameters ==
    ~layersDirty
    => \A i \in 1..Len(layers) :
          (layers[i].type \in {"image", "video"} /\ FindIndex(objects, layers[i].id) # 0)
          => FiltersOf(objects, layers[i].id) = applyAllFiltersToImage(objects[1], layers[i])


\* The grading slots of a layer record: the preset with its intensity, each manual
\* slider, each colour wheel, and each other block of the advanced grade.
GradingSlots ==
    {<<"preset">>}
    \cup {<<"manual", a>> : a \in ManualNames}
    \cup {<<"wheel", w>> : w \in WheelNames}
    \cup {<<"block", AdvancedBlocks[k]>> : k \in 2..Len(AdvancedBlocks)}

\* What a layer record holds in a slot; an absent manual or wheel block counts as zeros.
Slot(layer, s) ==
    CASE s[1] = "preset" -> <<layer.lutPreset, layer.lutIntensity>>
      [] s[1] = "manual" -> IF layer.manualAdjustments = <<>> THEN 0
                            ELSE layer.manualAdjustments[1][s[2]]
      [] s[1] = "wheel" -> IF layer.advancedColorGrade.colorWheels = <<>> THEN Rgb(0, 0, 0)
                           ELSE layer.advancedColorGrade.colorWheels[1][s[2]]
      [] s[1] = "block" -> layer.advancedColorGrade[s[2]]

\* The slot a grading call writes.
SlotOf(call) ==
    CASE call.op = "applyColorGrade" -> <<"preset">>
      [] call.op = "applyManualAdjustment" -> <<"manual", call.arg[1]>>
      [] call.op = "applyColorWheel" -> <<"wheel", call.arg[1]>>
      [] call.op = "applyCurves" -> <<"block", "curves">>
      [] call.op = "applyPrimaryAdjustments" -> <<"block", "primaryAdjustments">>
      [] call.op = "applyPrimaryBars" -> <<"block", "primaryBars">>
      [] call.op = "applyAdvancedCurves" -> <<"block", "advancedCurves">>
      [] call.op = "applyHSL" -> <<"block", "hslAdjustments">>
      [] call.op = "applyAdvancedAdjustments" -> <<"block", "advancedAdjustments">>

MergingOps ==
    {"applyColorGrade", "applyManualAdjustment", "applyColorWheel", "applyCurves",
     "applyPrimaryAdjustments", "applyPrimaryBars", "applyAdvancedCurves", "applyHSL",
     "applyAdvancedAdjustments"}

\* C14: a grading call other than the reset writes one slot of the layer records it
\* reaches: every other grading slot of every layer, and id, type, visible, locked and
\* sourceUrl, are as before the call.
C14_GradingMerges ==
    [][(Len(calls') = Len(calls) + 1 /\ LastCall.op \in MergingOps)
       => /\ Len(layers') = Len(layers)
          /\ \A i \in 1..Len(layers) :
                /\ \A f \in {"id", "type", "visible", "locked", "sourceUrl"} :
                      layers'[i][f] = layers[i][f]
                /\ \A s \in GradingSlots \ {SlotOf(LastCall)} :
                      Slot(layers'[i], s) = Slot(layers[i], s)]_vars

\* A layer that already carried a manual adjustment has received an HSL block as well.
C14_Witness ==
    /\ Len(calls) = 2
    /\ calls[1].op = "applyManualAdjustment"
    /\ calls[2].op = "applyHSL"
    /\ \E i \in 1..Len(layers) :
          /\ layers[i].manualAdjustments # <<>>
          /\ layers[i].manualAdjustments[1][calls[1].arg[1]] = calls[1].arg[2]
          /\ layers[i].advancedColorGrade.hslAdjustments = <<calls[2].arg[1]>>


----------------------------------------------------------------------------
(* The Grading Engine alone: two image layers with the same grading parameters, whose
   drawables carry different op lists, and up to MaxApplications runs of the engine. *)

MaxApplications == 3

MixerValue ==
    [redToRed |-> 10, greenToRed |-> 0, blueToRed |-> 0, redToGreen |-> 0, greenToGreen |-> 0,
     blueToGreen |-> -10, redToBlue |-> 0, greenToBlue |-> 0, blueToBlue |-> 0]
\* A value for each block of the advanced grade.
BlockValue ==
    [colorWheels |-> [ZeroWheels EXCEPT !.lift = Rgb(10, 0, -10), !.gain = Rgb(0, 20, 0)],
     primaryAdjustments |-> CHOOSE v \in PrimaryAdjustmentValues : TRUE,
     primaryBars |-> CHOOSE v \in PrimaryBarValues : TRUE,
     advancedAdjustments |-> CHOOSE v \in AdvancedAdjustmentValues : TRUE,
     hslAdjustments |-> CHOOSE v \in HslValues : TRUE,
     advancedCurves |-> CHOOSE v \in AdvancedCurveValues : TRUE,
     rgbMixer |-> MixerValue,
     curves |-> CHOOSE v \in CurveValues : TRUE]
\* Grading parameters: a preset or none, manual adjustments or none, any subset of the
\* blocks of the advanced grade.
EnginePresets == {<<NoPreset, <<>>>>, <<"noir", <<50>>>>, <<"gold", <<>>>>}
EngineManuals == {<<>>, <<[exposure |-> 40, contrast |-> 0, saturation |-> -20, temperature |-> 0]>>}
EngineAdvanced ==
    {[b \in DOMAIN NoAdvanced |-> IF b \in present THEN <<BlockValue[b]>> ELSE <<>>]
        : present \in SUBSET DOMAIN NoAdvanced}
\* Op lists left on the two drawables by earlier grading.
PriorFilters ==
    {<<<<>>, PresetOps("noir", 100)>>,
     <<PresetOps("gold", 50), <<FilterOp("manual", "Brightness", Frac(1, 10))>>>>}

Graded(id, preset, manual, adv) ==
    [NewLayer(id, "image", "a.png") EXCEPT !.lutPreset = preset[1], !.lutIntensity = preset[2],
                                           !.manualAdjustments = manual,
                                           !.advancedColorGrade = adv]

InitEngine ==
    /\ \E preset \in EnginePresets, manual \in EngineManuals, adv \in EngineAdvanced,
          prior \in PriorFilters :
          /\ layers = <<Graded(ImageLayer2, preset, manual, adv),
                        Graded(ImageLayer1, preset, manual, adv)>>
          /\ objects = <<[NewObject(1, ImageLayer1, "image", "a.png") EXCEPT !.filters = prior[1]],
                         [NewObject(2, ImageLayer2, "image", "a.png") EXCEPT !.filters = prior[2]]>>
    /\ activeObject = 2
    /\ selectedLayerId = ImageLayer2
    /\ layerCountRef = 2
    /\ historyRef = <<>>
    /\ historyIndexRef = -1
    /\ renderedLayers = layers
    /\ renderedSelected = ImageLayer2
    /\ layersDirty = FALSE
    /\ pendingAdds = <<>>
    /\ pendingRemovals = <<>>
    /\ pendingLoads = <<>>
    /\ timers = 0
    /\ cleaned = FALSE
    /\ calls = <<>>
    /\ evaluated = <<>>
    /\ StoreIdle

\* One run of applyAllFiltersToImage(obj, layer) for the layer record k and its drawable.
ApplyEngine ==
    \E k \in 1..Len(layers) :
        /\ Len(calls) < MaxApplications
        /\ objects' = ApplyFilters(objects, layers, {k})
        /\ UNCHANGED <<layers, activeObject, selectedLayerId, layerCountRef, historyRef,
                       historyIndexRef, renderedLayers, renderedSelected, layersDirty,
                       pendingAdds, pendingRemovals, pendingLoads, timers, cleaned>>
        /\ Logged("applyAllFiltersToImage", <<layers[k].id>>)

NextEngine == ApplyEngine

SpecEngine == InitEngine /\ [][NextEngine]_vars

\* The number of engine runs on the drawable of layer `id` so far.
Applications(id) == Cardinality({c \in 1..Len(calls) : calls[c].arg = <<id>>})

\* C16: the op list the engine installs is a function of the grading parameters only: two
\* drawables whose layers have identical parameters carry identical op lists once the
\* engine ran on each, whatever op lists they carried before and however many times it
\* ran on either; and a further run on a drawable leaves its op list as it is.
C16_EngineDeterminism ==
    /\ [](Applications(ImageLayer1) >= 1 /\ Applications(ImageLayer2) >= 1
          => FiltersOf(objects, ImageLayer1) = FiltersOf(objects, ImageLayer2))
    /\ [][\A id \in {ImageLayer1, ImageLayer2} :
             Applications(id) >= 1 => FiltersOf(objects', id) = FiltersOf(objects, id)]_vars

\* The engine ran twice on one drawable and once on the other, the drawables carried
\* different non-empty op lists before, and the parameters yield ops.
C16_Witness ==
    /\ Applications(ImageLayer1) = 2
    /\ Applications(ImageLayer2) = 1
    /\ calls[1].pre.objects[1].filters # <<>>
    /\ calls[1].pre.objects[2].filters # <<>>
    /\ calls[1].pre.objects[1].filters # calls[1].pre.objects[2].filters
    /\ FiltersOf(objects, ImageLayer1) # <<>>


\* The stages of the engine in the order the specification gives them.
StageOrder ==
    <<"manual", "colorWheels", "primaryAdjustments", "primaryBars", "advancedAdjustments",
      "hslAdjustments", "advancedCurves", "rgbMixer", "curves", "preset">>
Rank(stage) == CHOOSE r \in 1..Len(StageOrder) : StageOrder[r] = stage
StagesOf(ops) == {ops[k][1] : k \in 1..Len(ops)}

\* C17: in every op list the engine produces, the ops of the manual adjustments (one for
\* each slider that is not 0) precede those of the advanced grade, which come in the
\* order colour wheels, primary adjustments, primary bars, advanced adjustments, HSL,
\* advanced curves, RGB mixer, RGB curves; the ops of the preset come last.
C17_StageOrder ==
    \A i \in 1..Len(layers) :
        Applications(layers[i].id) >= 1
        => LET ops == FiltersOf(objects, layers[i].id)
               manual == layers[i].manualAdjustments
           IN /\ \A a, b \in 1..Len(ops) : a < b => Rank(ops[a][1]) <= Rank(ops[b][1])
              /\ Cardinality({k \in 1..Len(ops) : ops[k][1] = "manual"})
                    = IF manual = <<>> THEN 0
                      ELSE Cardinality({n \in ManualNames : manual[1][n] # 0})
              /\ "preset" \in StagesOf(ops) <=> layers[i].lutPreset \in DOMAIN PresetRecipes

\* The engine produced an op list with ops of every stage.
C17_Witness ==
    /\ Applications(ImageLayer1) >= 1
    /\ StagesOf(FiltersOf(objects, ImageLayer1)) = {StageOrder[r] : r \in 1..Len(StageOrder)}

----------------------------------------------------------------------------
(* History entries against the live state *)

\* The layer list and the scene name the same layers.
LiveConsistent == LayerIds(layers) = ObjectTags(objects)

\* The entry the history index points at.
CurrentEntry(history, index) == history[index + 1]

\* A snapshot whose layer ids are the layerId tags of its serialized scene.
EntryConsistent(entry) ==
    LayerIds(entry.layers) = {entry.canvasState[i].layerId : i \in 1..Len(entry.canvasState)}

\* C29: every snapshot pushed while the layer list and the scene named the same layers is
\* self-consistent: the ids of its layer list are the layerId tags of its serialized
\* scene, also when the operation pushing it follows another one before a re-render.
C29_EntriesConsistent ==
    [][(historyRef' # historyRef /\ LiveConsistent)
          => EntryConsistent(CurrentEntry(historyRef', historyIndexRef'))]_vars

----------------------------------------------------------------------------
(* Visibility and lock flags: a session of adds, toggles, deletes, undo and redo that
   starts with one text layer on the canvas. *)

\* The number of calls of a toggle session.
MaxToggleCalls == 4

ToggleOp(name, arg, A) == Len(calls) < MaxToggleCalls /\ A /\ Logged(name, arg)

ToggleAddText == ToggleOp("addText", <<"hello">>, addText("hello"))
ToggleVisibility ==
    \E id \in UiIds : ToggleOp("toggleLayerVisibility", <<id>>, toggleLayerVisibility(id))
ToggleLock == \E id \in UiIds : ToggleOp("toggleLayerLock", <<id>>, toggleLayerLock(id))
ToggleDelete == \E id \in UiIds : ToggleOp("deleteLayer", <<id>>, deleteLayer(id))
ToggleUndo == ToggleOp("undo", <<>>, undo)
ToggleRedo == ToggleOp("redo", <<>>, redo)

NextToggle ==
    \/ ToggleAddText
    \/ ToggleVisibility
    \/ ToggleLock
    \/ ToggleDelete
    \/ ToggleUndo
    \/ ToggleRedo
    \/ CleanupOrphanedLayers
    \/ LoadFromJSON
    \/ Render

SpecToggle == InitHistory /\ [][NextToggle]_vars

\* The flags of a layer record are those of its drawable.
FlagsAgree(layer, obj) ==
    /\ layer.visible = obj.visible
    /\ layer.locked = ~obj.selectable

\* C28: once the session is quiet, every layer that has a drawable is visible exactly
\* when the drawable is, and locked exactly when the drawable is not selectable.
C28_FlagsAgree ==
    Quiet => \A k \in 1..Len(layers), i \in 1..Len(objects) :
                 objects[i].layerId = layers[k].id => FlagsAgree(layers[k], objects[i])

----------------------------------------------------------------------------
(* The carousel editor (CarouselEditor): the project store and the canvas editor in
   one component, from the mount on. *)

MaxProjectCalls == 3   \* operations issued in a session of the carousel editor
MaxHistoryCalls == 4   \* operations issued in a session with undo across slides
MaxSlides == 3         \* slides a project grows to

ImageLayer == NewLayer(LayerId("image", 1), "image", "a.png")
VideoLayer == NewLayer(LayerId("video", 2), "video", "a.png")

\* JSON.parse results that are not projects: null and {}.
NullValue == [type |-> "null", hasSlides |-> FALSE, slides |-> <<>>]
EmptyObject == [type |-> "object", hasSlides |-> FALSE, slides |-> <<>>]

\* A project an earlier session saved: an image layer on slide 1, a video layer on slide 2.
SavedProject ==
    ProjectOf(<<[id |-> 1, name |-> <<1, 0>>, layers |-> <<ImageLayer>>],
                [id |-> 2, name |-> <<2, 0>>, layers |-> <<VideoLayer>>]>>)

\* What localStorage may hold at load: nothing, text that is not JSON, or JSON text
\* (`value` is what JSON.parse makes of it).
StoredItems ==
    {[kind |-> "absent", value |-> NullValue], [kind |-> "garbage", value |-> NullValue]}
    \cup {[kind |-> "json", value |-> v] : v \in {NullValue, EmptyObject, ProjectOf(<<>>), SavedProject}}

\* The project before the component has mounted.
Unmounted == [type |-> "unmounted", hasSlides |-> FALSE, slides |-> <<>>]

\* The useState initializer: the parsed item when there is one and it parses, the default
\* project when there is none or JSON.parse throws.
load(item, id) == IF item.kind = "json" THEN item.value ELSE createDefaultProject(id)

\* Ids generateId cannot return any more: those of the slides of a loaded project.
MaxSlideId(slides) ==
    LET S == SlideIds(slides) \cup {0} IN CHOOSE m \in S : \A x \in S : x <= m

\* The first render. A value without a slides array makes it throw (project.slides[...]),
\* and nothing runs after that; otherwise the editor starts with the layers of slide 0,
\* or none, and every effect of the component is pending.
Mount ==
    /\ project = Unmounted
    /\ LET loaded == load(storage, 1)
           initial == IF loaded.hasSlides THEN InitialLayersOf(loaded.slides, 0)
                      ELSE InitialLayersOf(<<>>, 0)
       IN /\ project' = loaded
          /\ clock' = Max(1, MaxSlideId(loaded.slides))
          /\ renderedStore' = [slides |-> loaded.slides, currentSlideIndex |-> 0]
          /\ effects' = IF loaded.type = "object" /\ loaded.hasSlides
                        THEN {"sync", "notify", "save"} ELSE {}
          /\ layers' = initial.layers
          /\ renderedLayers' = initial.layers
          /\ layerCountRef' = getMaxLayerSuffix(initial.layers)
    /\ UNCHANGED <<objects, activeObject, selectedLayerId, historyRef, historyIndexRef,
                   renderedSelected, layersDirty, pendingAdds, pendingRemovals, pendingLoads,
                   timers, cleaned, calls, evaluated, currentSlideIndex, storeDirty, exported,
                   storage>>

\* A re-render of the component: both hooks close over the new state; the effects of the
\* editor that depend on `layers` and the selection run with it (render); the sync effect
\* is pending when the `layers` prop changed, the save effect when the project changed,
\* and the notify effect always, its callback being a new function with every render.
Commit ==
    /\ Renderable
    /\ effects = {}
    /\ storeDirty \/ layersDirty \/ renderedSelected # selectedLayerId
    /\ IF layersDirty \/ renderedSelected # selectedLayerId THEN render ELSE UNCHANGED progVars
    /\ renderedStore' = [slides |-> project.slides, currentSlideIndex |-> currentSlideIndex]
    /\ storeDirty' = FALSE
    /\ effects' = {"notify"}
          \cup (IF InitialLayersOf(project.slides, currentSlideIndex)
                     # InitialLayersOf(renderedStore.slides, renderedStore.currentSlideIndex)
                THEN {"sync"} ELSE {})
          \cup (IF project.slides # renderedStore.slides THEN {"save"} ELSE {})
    /\ UNCHANGED <<project, currentSlideIndex, clock, exported, storage, calls, evaluated>>

\* The pending effects run. Sync: a defined `layers` prop that is not the editor's layer
\* list replaces it. Notify: onLayersChange(layers) is updateSlide(currentSlide.id,
\* {layers}) when there is a current slide. Save: the project goes to localStorage.
\* Layer lists are compared by their contents: setting a list with the same records is a
\* further render that changes none of the values held here.
SyncEffects ==
    /\ effects # {}
    /\ LET initial == InitialLayersOf(renderedStore.slides, renderedStore.currentSlideIndex)
       IN /\ IF "sync" \in effects /\ initial.defined /\ initial.layers # renderedLayers
             THEN loadSlideLayers(initial.layers)
             ELSE UNCHANGED progVars
          /\ IF "notify" \in effects /\ initial.defined
             THEN updateSlide(renderedStore.slides[renderedStore.currentSlideIndex + 1].id,
                              renderedLayers)
             ELSE UNCHANGED <<project, storeDirty>>
    /\ storage' = IF "save" \in effects
                  THEN [kind |-> "json", value |-> ProjectOf(renderedStore.slides)]
                  ELSE storage
    /\ effects' = {}
    /\ UNCHANGED <<currentSlideIndex, renderedStore, clock, exported, calls, evaluated>>

\* exportCanvas(2): the data URL of the canvas, here the scene it shows.
exportCanvas == Serialize(objects)

\* handleExportAll: nothing without slides; with a video layer in the editor one image
\* download (exportCanvasAsVideo falls back to exportCanvasAsDownload); otherwise a zip
\* holding the raster of the canvas under the number of the current slide.
handleExportAll ==
    /\ IF Len(renderedStore.slides) = 0
       THEN UNCHANGED exported
       ELSE IF \E k \in 1..Len(renderedLayers) : renderedLayers[k].type = "video"
       THEN exported' = [kind |-> "png", slides |-> Len(renderedStore.slides),
                         files |-> <<[name |-> 0, data |-> exportCanvas]>>]
       ELSE exported' = [kind |-> "zip", slides |-> Len(renderedStore.slides),
                         files |-> <<[name |-> renderedStore.currentSlideIndex + 1,
                                      data |-> exportCanvas]>>]
    /\ UNCHANGED <<project, currentSlideIndex, renderedStore, storeDirty, effects, clock,
                   storage>>

\* The state before the component mounts.
InitProject ==
    /\ layers = <<>>
    /\ objects = <<>>
    /\ activeObject = 0
    /\ selectedLayerId = NoLayer
    /\ layerCountRef = 0
    /\ historyRef = <<>>
    /\ historyIndexRef = -1
    /\ renderedLayers = <<>>
    /\ renderedSelected = NoLayer
    /\ layersDirty = FALSE
    /\ pendingAdds = <<>>
    /\ pendingRemovals = <<>>
    /\ pendingLoads = <<>>
    /\ timers = 0
    /\ cleaned = FALSE
    /\ calls = <<>>
    /\ evaluated = <<>>
    /\ project = Unmounted
    /\ currentSlideIndex = 0
    /\ renderedStore = [slides |-> <<>>, currentSlideIndex |-> 0]
    /\ storeDirty = FALSE
    /\ effects = {}
    /\ clock = 0
    /\ exported = <<>>
    /\ storage \in StoredItems

\* The component is mounted and its effects have run: the next event is handled.
Idle == Renderable /\ effects = {}

\* Ids the slide navigation can pass: those of the rendered slides, or one of no slide.
UiSlideIds == SlideIds(renderedStore.slides) \cup {NoSlide}

\* What a caller can observe of the store.
StoreObservation == [slides |-> project.slides, currentSlideIndex |-> currentSlideIndex]

\* An operation of the canvas editor issued in the carousel editor.
EditorOp(name, arg, A) == Idle /\ Len(calls) < MaxProjectCalls /\ A /\ Logged(name, arg)

\* An operation of the project store or of the toolbar.
StoreCall(name, arg, A) ==
    /\ Idle
    /\ A
    /\ calls' = Append(calls, [op |-> name, arg |-> arg, pre |-> StoreObservation])
    /\ UNCHANGED <<progVars, evaluated>>
StoreOp(name, arg, A) == Len(calls) < MaxProjectCalls /\ StoreCall(name, arg, A)

ProjectAddText == EditorOp("addText", <<"hello">>, addText("hello"))
AddSlide == Len(project.slides) < MaxSlides /\ StoreOp("addSlide", <<>>, addSlide)
DeleteSlide == \E id \in UiSlideIds : StoreOp("deleteSlide", <<id>>, deleteSlide(id))
DuplicateSlide ==
    /\ Len(project.slides) < MaxSlides
    /\ \E id \in UiSlideIds : StoreOp("duplicateSlide", <<id>>, duplicateSlide(id))
SetCurrentSlide == \E id \in UiSlideIds : StoreOp("setCurrentSlide", <<id>>, setCurrentSlide(id))
HandleExportAll == StoreOp("handleExportAll", <<>>, handleExportAll)

\* The slide operations, with addText as the layer operation.
NextProject ==
    \/ Mount
    \/ ProjectAddText
    \/ AddSlide
    \/ DeleteSlide
    \/ DuplicateSlide
    \/ SetCurrentSlide
    \/ HandleExportAll
    \/ Commit
    \/ SyncEffects

SpecProject == InitProject /\ [][NextProject]_vars

\* An operation of a session with undo across slides.
HistoryOp(name, arg, A) == Idle /\ Len(calls) < MaxHistoryCalls /\ A /\ Logged(name, arg)

HistoryAddText == HistoryOp("addText", <<"hello">>, addText("hello"))
HistoryDeleteLayer == \E id \in UiIds : HistoryOp("deleteLayer", <<id>>, deleteLayer(id))
HistoryUndo == HistoryOp("undo", <<>>, undo)
HistorySetCurrentSlide ==
    \E id \in SlideIds(renderedStore.slides) :
        /\ Len(calls) < MaxHistoryCalls
        /\ StoreCall("setCurrentSlide", <<id>>, setCurrentSlide(id))

\* The layer operations that take snapshots, undo, and the change of the current slide.
NextSlideHistory ==
    \/ Mount
    \/ HistoryAddText
    \/ HistoryDeleteLayer
    \/ HistoryUndo
    \/ HistorySetCurrentSlide
    \/ CleanupOrphanedLayers
    \/ LoadFromJSON
    \/ Commit
    \/ SyncEffects

SpecSlideHistory == InitProject /\ [][NextSlideHistory]_vars

\* The operations that change the layers of the current slide.
LayerOps == {"addText", "deleteLayer", "undo"}

\* Every slide of `after` that is a slide of `before` holds the layer list it held there.
SameStoredLayers(before, after) ==
    \A i \in 1..Len(before), j \in 1..Len(after) :
        before[i].id = after[j].id => before[i].layers = after[j].layers

\* C21: in a session in which no layer operation is issued, whatever slide is made current
\* by setCurrentSlide, addSlide, duplicateSlide or deleteSlide, no step changes the layer
\* list stored with a slide.
C21_SwitchKeepsLayers ==
    [][CallsOf(LayerOps) = {} => SameStoredLayers(project.slides, project'.slides)]_vars

\* The step is a deleteSlide call on the only slide of the project.
DeletesOnlySlide ==
    /\ Issued("deleteSlide")
    /\ Len(project.slides) = 1
    /\ LastCall.arg[1] = project.slides[1].id

\* C22: no step of a session of addSlide, deleteSlide, duplicateSlide and updateSlide
\* leaves a project that had slides without one; deleteSlide on the only slide leaves
\* exactly one slide, with an id no slide had, no layers, and the current index 0.
C22_NeverEmpty ==
    [][/\ Len(project.slides) >= 1 => Len(project'.slides) >= 1
       /\ DeletesOnlySlide =>
             /\ Len(project'.slides) = 1
             /\ project'.slides[1].id \notin 0..clock
             /\ project'.slides[1].layers = <<>>
             /\ currentSlideIndex' = 0]_vars

\* The only slide of a project has been deleted.
C22_Witness ==
    \E c \in 1..Len(calls) :
        /\ calls[c].op = "deleteSlide"
        /\ Len(calls[c].pre.slides) = 1
        /\ calls[c].arg[1] = calls[c].pre.slides[1].id
        /\ Len(project.slides) = 1

\* The step is a deleteSlide call on a project with more than one slide.
DeletesOfSeveral == Issued("deleteSlide") /\ Len(project.slides) > 1

\* C23: after deleteSlide(id) on a project with more than one slide the current index
\* designates a slide: the slide that was current if it was not the one deleted,
\* otherwise the slide before or after it. This holds for an id that is no slide's and
\* for a call that follows another deleteSlide call before a re-render.
C23_CurrentAfterDelete ==
    [][(DeletesOfSeveral /\ HasSlideAt(project.slides, currentSlideIndex)) =>
          LET current == currentSlideIndex + 1
              id == LastCall.arg[1]
          IN /\ HasSlideAt(project'.slides, currentSlideIndex')
             /\ IF project.slides[current].id # id
                THEN project'.slides[currentSlideIndex' + 1].id = project.slides[current].id
                ELSE project'.slides[currentSlideIndex' + 1].id
                        \in {project.slides[k].id :
                                k \in {current - 1, current + 1} \cap (1..Len(project.slides))}]_vars

\* The step is a duplicateSlide call with the id of a slide of the project.
DuplicatesSlide == Issued("duplicateSlide") /\ LastCall.arg[1] \in SlideIds(project.slides)

\* The layer ids of a slide, in order.
LayerIdSeq(slide) == [k \in 1..Len(slide.layers) |-> slide.layers[k].id]

\* C24: duplicateSlide(id) with the id of a slide puts a copy right after that slide, with
\* an id no slide had and the same layer ids in the same order, makes it current, and
\* leaves the other slides as they were and in their order; with an unknown id it changes
\* nothing. A later change of the copy's layer list leaves the source's list as it was.
C24_Duplicate ==
    [][/\ DuplicatesSlide =>
             LET at == findSlideIndex(project.slides, LastCall.arg[1]) + 1
                 copy == project'.slides[at + 1]
             IN /\ Len(project'.slides) = Len(project.slides) + 1
                /\ copy.id \notin 0..clock
                /\ LayerIdSeq(copy) = LayerIdSeq(project.slides[at])
                /\ currentSlideIndex' = at
                /\ RemoveAt(project'.slides, at + 1) = project.slides
       /\ (Issued("duplicateSlide") /\ ~DuplicatesSlide) =>
             UNCHANGED <<project, currentSlideIndex>>
       /\ \A i \in 1..Len(project.slides), j \in 1..Len(project'.slides) :
             (/\ project.slides[i].id = project'.slides[j].id
              /\ project.slides[i].layers # project'.slides[j].layers)
                => /\ HasSlideAt(renderedStore.slides, renderedStore.currentSlideIndex)
                   /\ renderedStore.slides[renderedStore.currentSlideIndex + 1].id
                         = project.slides[i].id]_vars

\* A slide with layers has been duplicated and a layer added to the copy since: the layer
\* list stored with the copy is longer than the one stored with its source.
C24_Witness ==
    \E i, j \in 1..Len(project.slides) :
        /\ project.slides[j].name = <<project.slides[i].name[1], 1>>
        /\ project.slides[i].name[2] = 0
        /\ project.slides[i].layers # <<>>
        /\ Len(project.slides[j].layers) > Len(project.slides[i].layers)
        /\ CallsOf({"duplicateSlide"}) # {}
        /\ CallsOf({"setCurrentSlide", "addSlide", "deleteSlide"}) = {}

\* C25: whatever localStorage holds at load (nothing, text that does not parse, or JSON
\* that is not a project with slides, such as null, {} or {"slides": []}), the store
\* starts with a project that has a slides array with at least one slide.
C25_LoadGivesProject ==
    [][project = Unmounted
          => /\ project'.type = "object"
             /\ project'.hasSlides
             /\ Len(project'.slides) >= 1]_vars

\* C26: an export of all slides of a project with n slides hands over one archive with
\* exactly n rasters, one per slide, also when the editor holds a video layer.
C26_ExportAllSlides ==
    exported # <<>> =>
        /\ exported.kind = "zip"
        /\ Len(exported.files) = exported.slides
        /\ {exported.files[k].name : k \in 1..Len(exported.files)} = 1..exported.slides

\* Every snapshot of the session was taken on the slide that was current at the start;
\* then another slide was made current, and undo was called only after that.
SwitchedAway ==
    \E c \in CallsOf({"setCurrentSlide"}) :
        /\ CallsOf({"setCurrentSlide"}) = {c}
        /\ calls[c].pre.currentSlideIndex = 0
        /\ calls[c].arg[1] # calls[c].pre.slides[1].id
        /\ \A d \in CallsOf({"addText", "deleteLayer"}) : d < c
        /\ \A d \in CallsOf({"undo"}) : d > c

\* C27: undo restores only snapshots taken while the slide that is current was current:
\* when every snapshot of the history was taken on another slide, an undo issued on the
\* current slide, after the render that made it current, starts no restore of a scene and
\* a layer list.
C27_UndoStaysOnSlide ==
    [][(/\ Issued("undo")
        /\ SwitchedAway'
        /\ currentSlideIndex # 0
        /\ renderedStore.currentSlideIndex = currentSlideIndex)
          => pendingLoads' = pendingLoads]_vars

----------------------------------------------------------------------------
(* Propagation between the editor and the store. React runs a render that is scheduled
   and the effects of a render that has committed, hence the weak fairness of the three
   steps of the runtime; the user may stop issuing operations at any time. *)

SpecProjectFair ==
    /\ SpecProject
    /\ WF_vars(Mount)
    /\ WF_vars(Commit)
    /\ WF_vars(SyncEffects)

\* Nothing is scheduled, and the editor's layer list is the one stored with the current
\* slide, if there is one. A component whose first render threw stays as it is.
Settled ==
    \/ ~Renderable
    \/ /\ effects = {}
       /\ ~storeDirty
       /\ ~layersDirty
       /\ renderedSelected = selectedLayerId
       /\ LET stored == InitialLayersOf(project.slides, currentSlideIndex)
          IN stored.defined => stored.layers = layers

\* C30: when the store starts with a project that has slides, the chain editor layers ->
\* onLayersChange -> updateSlide -> project -> re-render comes to rest: from some point on
\* nothing is scheduled, the editor's layer list is the one stored with the current slide,
\* and no further updateSlide call is made.
C30_PropagationStops ==
    (load(storage, 1).hasSlides /\ load(storage, 1).slides # <<>>) => <>[]Settled
====
